---- MODULE Spec2Model ----
(***************************************************************************)
(* Model of the YATI worker (src/src/index.js, the revision that starts at *)
(* line 423): the cron handler checkForNewEvent, its helpers and the       *)
(* key-value store it reads and writes.                                    *)
(* The fetch handler's /test-alert is modelled from the same revision, its *)
(* /public with servePublicHtml and refreshPublicHtml from the revision    *)
(* that starts at line 117.                                                *)
(*                                                                         *)
(* Numbers are kept in tenths (5.2 is 52).  Truncating a decimal to tenths *)
(* keeps every comparison against a threshold that is itself a whole       *)
(* number of tenths.  Strings are sequences of one-character strings.      *)
(* JSON values are records [t, n, s, vt]: t is the type, n the number, s   *)
(* the string, vt the type of the member "value" when t = "obj".           *)
(***************************************************************************)
EXTENDS Integers, Sequences, FiniteSets, TLC

(* ------------------------------------------------------------------ *)
(* JavaScript values                                                  *)
(* ------------------------------------------------------------------ *)

NaN == [nan |-> TRUE, v |-> 0]
Num(x) == [nan |-> FALSE, v |-> x]

JUndef == [t |-> "undef", n |-> 0, s |-> <<>>, vt |-> "undef"]
JNum(x) == [t |-> "num", n |-> x, s |-> <<>>, vt |-> "undef"]
JStr(str) == [t |-> "str", n |-> 0, s |-> str, vt |-> "undef"]
JObjNum(x) == [t |-> "obj", n |-> x, s |-> <<>>, vt |-> "num"]
JObjStr(str) == [t |-> "obj", n |-> 0, s |-> str, vt |-> "str"]
JObjEmpty == [t |-> "obj", n |-> 0, s |-> <<>>, vt |-> "undef"]

\* the member "value" of an object
ValueOf(j) ==
  IF j.vt = "num" THEN JNum(j.n)
  ELSE IF j.vt = "str" THEN JStr(j.s)
  ELSE JUndef

\* a ?? b
Nullish(a, b) == IF a.t = "undef" THEN b ELSE a

Digits == <<"0", "1", "2", "3", "4", "5", "6", "7", "8", "9">>
IsDigit(c) == \E i \in 1..10 : Digits[i] = c
DigitVal(c) == (CHOOSE i \in 1..10 : Digits[i] = c) - 1

RECURSIVE NatToStr(_)
NatToStr(x) ==
  IF x < 10 THEN <<Digits[x + 1]>>
  ELSE NatToStr(x \div 10) \o <<Digits[(x % 10) + 1]>>

\* String(number) of a non-negative number of tenths
NumToStr(x) ==
  IF x % 10 = 0 THEN NatToStr(x \div 10)
  ELSE NatToStr(x \div 10) \o <<".">> \o <<Digits[(x % 10) + 1]>>

\* String(value)
ToStr(j) ==
  IF j.t = "num" THEN NumToStr(j.n)
  ELSE IF j.t = "str" THEN j.s
  ELSE IF j.t = "obj" THEN <<"[", "o", "b", "j", "]">>
  ELSE <<"u", "n", "d", "e", "f">>

\* s.replace(",", "."): the first comma only
RECURSIVE ReplaceComma(_)
ReplaceComma(s) ==
  IF s = <<>> THEN <<>>
  ELSE IF Head(s) = "," THEN <<".">> \o Tail(s)
  ELSE <<Head(s)>> \o ReplaceComma(Tail(s))

RECURSIVE SkipSpaces(_)
SkipSpaces(s) ==
  IF s # <<>> /\ Head(s) = " " THEN SkipSpaces(Tail(s)) ELSE s

RECURSIVE DropTrailingSpaces(_)
DropTrailingSpaces(s) ==
  IF s # <<>> /\ s[Len(s)] = " "
  THEN DropTrailingSpaces(SubSeq(s, 1, Len(s) - 1))
  ELSE s

\* s.trim()
Trim(s) == DropTrailingSpaces(SkipSpaces(s))

\* the longest prefix of digits
RECURSIVE DigitRun(_)
DigitRun(s) ==
  IF s # <<>> /\ IsDigit(Head(s)) THEN <<Head(s)>> \o DigitRun(Tail(s)) ELSE <<>>

RECURSIVE DigitsToNat(_)
DigitsToNat(ds) ==
  IF ds = <<>> THEN 0
  ELSE DigitsToNat(SubSeq(ds, 1, Len(ds) - 1)) * 10 + DigitVal(ds[Len(ds)])

Rest(s, k) == SubSeq(s, k + 1, Len(s))

\* parseFloat(s) in tenths: leading blanks, digits, an optional "." and
\* digits; NaN when no digit was read.  (Signs and exponents are not in
\* the alphabet of the inputs.)
ParseFloat(s) ==
  LET t == SkipSpaces(s)
      ip == DigitRun(t)
      r == Rest(t, Len(ip))
      fp == IF r # <<>> /\ Head(r) = "." THEN DigitRun(Tail(r)) ELSE <<>>
  IN IF ip = <<>> /\ fp = <<>> THEN NaN
     ELSE Num(DigitsToNat(ip) * 10 + (IF fp = <<>> THEN 0 ELSE DigitVal(fp[1])))

\* Number(s) of a string: the whole trimmed string must be a number, "" is 0
StrToNumber(s) ==
  LET t == Trim(s)
      ip == DigitRun(t)
      r == Rest(t, Len(ip))
      fp == IF r # <<>> /\ Head(r) = "." THEN DigitRun(Tail(r)) ELSE <<>>
      used == Len(ip) + (IF r # <<>> /\ Head(r) = "." THEN 1 + Len(fp) ELSE 0)
  IN IF t = <<>> THEN Num(0)
     ELSE IF used # Len(t) \/ (ip = <<>> /\ fp = <<>>) THEN NaN
     ELSE Num(DigitsToNat(ip) * 10 + (IF fp = <<>> THEN 0 ELSE DigitVal(fp[1])))

\* Number(value)
ToNumber(j) ==
  IF j.t = "num" THEN Num(j.n)
  ELSE IF j.t = "str" THEN StrToNumber(j.s)
  ELSE IF j.t = "true" THEN Num(10)
  ELSE IF j.t = "false" THEN Num(0)
  ELSE NaN

\* a < b on numbers: false when either is NaN
NumLt(a, b) == ~a.nan /\ ~b.nan /\ a.v < b.v

Upper == <<"A", "B", "C", "D", "E", "F", "G", "H", "I", "J", "K", "L", "M",
           "N", "O", "P", "Q", "R", "S", "T", "U", "V", "W", "X", "Y", "Z">>
Lower == <<"a", "b", "c", "d", "e", "f", "g", "h", "i", "j", "k", "l", "m",
           "n", "o", "p", "q", "r", "s", "t", "u", "v", "w", "x", "y", "z">>

LowerOf(c) ==
  IF \E i \in 1..26 : Upper[i] = c
  THEN Lower[CHOOSE i \in 1..26 : Upper[i] = c]
  ELSE c

\* s.toLowerCase()
RECURSIVE ToLower(_)
ToLower(s) ==
  IF s = <<>> THEN <<>> ELSE <<LowerOf(Head(s))>> \o ToLower(Tail(s))

JTrue == [t |-> "true", n |-> 0, s |-> <<>>, vt |-> "undef"]
JFalse == [t |-> "false", n |-> 0, s |-> <<>>, vt |-> "undef"]

\* Boolean(value)
Truthy(j) ==
  CASE j.t = "true" -> TRUE
    [] j.t = "num" -> j.n # 0
    [] j.t = "str" -> j.s # <<>>
    [] j.t = "obj" -> TRUE
    [] OTHER -> FALSE

\* a || ""
OrEmpty(j) == IF Truthy(j) THEN j ELSE JStr(<<>>)

(* ------------------------------------------------------------------ *)
(* The pure steps of checkForNewEvent                                 *)
(* ------------------------------------------------------------------ *)

\* a list-valued member of a JSON document: an array, something else, or absent
LUndef == [t |-> "undef", items |-> <<>>]
LArr(xs) == [t |-> "arr", items |-> xs]
LOther == [t |-> "other", items |-> <<>>]

\* faulty variant: only a top-level list is accepted
EventsOfTopOnly(data) == IF data.top.t = "arr" THEN data.top ELSE LArr(<<>>)

\* Array.isArray(data) ? data : (data?.events || data?.data || data?.results || [])
\* (an array, even an empty one, is truthy)
EventsOf(data) ==
  IF data.top.t = "arr" THEN data.top
  ELSE IF data.events.t # "undef" THEN data.events
  ELSE IF data.data.t # "undef" THEN data.data
  ELSE IF data.results.t # "undef" THEN data.results
  ELSE LArr(<<>>)

\* !Array.isArray(events) || events.length === 0
NoEvents(events) == events.t # "arr" \/ events.items = <<>>

\* faulty variant: the last element of the list is taken for the latest
FirstOfTakesLast(events) ==
  IF NoEvents(events)
  THEN [id |-> JUndef, magnitude |-> JUndef, magnitud |-> JUndef, mag |-> JUndef]
  ELSE events.items[Len(events.items)]

\* events[0]; read only when the list has an element (the element stands
\* for undefined otherwise: every member absent)
FirstOf(events) ==
  IF NoEvents(events)
  THEN [id |-> JUndef, magnitude |-> JUndef, magnitud |-> JUndef, mag |-> JUndef]
  ELSE events.items[1]

\* String(latest?.id ?? "")
LatestIdOf(latest) == ToStr(Nullish(latest.id, JStr(<<>>)))

\* magRaw is an object ? magRaw.value : (magnitud ?? mag ?? magnitude)
MagValOf(latest) ==
  IF latest.magnitude.t = "obj" THEN ValueOf(latest.magnitude)
  ELSE Nullish(latest.magnitud, Nullish(latest.mag, latest.magnitude))

\* parseFloat(String(magVal).replace(",", "."))
FeedMagnitude(latest) == ParseFloat(ReplaceComma(ToStr(MagValOf(latest))))

\* faulty variant: the comparison the wrong way round
BelowThresholdSwapped(M, minMag) == NumLt(minMag, M)

\* M < MIN_EVENT_MAGNITUDE
BelowThreshold(M, minMag) == NumLt(M, minMag)

\* faulty variant: the get is not awaited, and a promise never equals a string
AlreadyAlertedNoAwait(stored, latestId) == FALSE

\* storedAlerted === latestId (the store gives a string or null)
AlreadyAlerted(stored, latestId) == stored = <<latestId>>

\* faulty variant: the enrichment's magnitude is not used
EffectiveMagFeedOnly(evento, M) == M

\* Number(evento?.magnitud ?? M)
EffectiveMag(evento, M) ==
  IF evento.magnitud.t = "undef" THEN M ELSE ToNumber(evento.magnitud)

\* faulty variant: the enrichment's id is dropped
PayloadIdOfFeedOnly(evento, latestId) == latestId

\* String(evento?.id ?? evento?.event_id ?? evento?.evento_id ?? evento?.ID ?? latestId)
PayloadIdOf(evento, latestId) ==
  ToStr(Nullish(evento.id, Nullish(evento.event_id,
        Nullish(evento.evento_id, Nullish(evento.ID, JStr(latestId))))))

\* Array.isArray(payload?.localidades) ? payload.localidades : []
LocsOf(payload) ==
  IF payload.localidades.t = "arr" THEN payload.localidades.items ELSE <<>>

\* new Set(locs.map(x => String(x?.localidad || "").toLowerCase()).filter(Boolean))
LocNamesOf(locs) ==
  {ToLower(ToStr(OrEmpty(locs[i].localidad))) : i \in 1..Len(locs)} \ {<<>>}

\* loadTargets: the stored text parsed and normalised; [] when the key is
\* absent or empty, when JSON.parse throws, when the document is not an
\* array, and when mapping an element throws (a null element)
\* faulty variant: a record without `enabled` counts as enabled
RECURSIVE MapTargetsEnabledByDefault(_)
MapTargetsEnabledByDefault(xs) ==
  IF xs = <<>> THEN <<>>
  ELSE <<[phone |-> OrEmpty(Head(xs).phone),
          min_mag |-> Nullish(Head(xs).min_mag, JNum(0)),
          localidad |-> OrEmpty(Head(xs).localidad),
          enabled |-> Head(xs).enabled.t = "undef" \/ Truthy(Head(xs).enabled)]>>
       \o MapTargetsEnabledByDefault(Tail(xs))

RECURSIVE MapTargets(_)
MapTargets(xs) ==
  IF xs = <<>> THEN <<>>
  ELSE <<[phone |-> OrEmpty(Head(xs).phone),
          min_mag |-> Nullish(Head(xs).min_mag, JNum(0)),
          localidad |-> OrEmpty(Head(xs).localidad),
          enabled |-> Truthy(Head(xs).enabled)]>> \o MapTargets(Tail(xs))

LoadTargets(raw) ==
  IF raw = <<>> THEN <<>>
  ELSE IF raw[1].t # "arr" THEN <<>>
  ELSE IF \E i \in 1..Len(raw[1].items) : raw[1].items[i].isNull THEN <<>>
  ELSE MapTargets(raw[1].items)

\* faulty variant: without the `if (!loc) return true` of the filter
TargetSelectedNoWildcard(t, mag, locNames) ==
  IF ~t.enabled THEN FALSE
  ELSE IF NumLt(mag, ToNumber(t.min_mag)) THEN FALSE
  ELSE ToLower(Trim(ToStr(t.localidad))) \in locNames

\* the predicate of targets.filter
TargetSelected(t, mag, locNames) ==
  IF ~t.enabled THEN FALSE
  ELSE IF NumLt(mag, ToNumber(t.min_mag)) THEN FALSE
  ELSE IF Trim(ToStr(t.localidad)) = <<>> THEN TRUE
  ELSE ToLower(Trim(ToStr(t.localidad))) \in locNames

RECURSIVE SelectTargets(_, _, _)
SelectTargets(targets, mag, locNames) ==
  IF targets = <<>> THEN <<>>
  ELSE (IF TargetSelected(Head(targets), mag, locNames)
        THEN <<Head(targets)>> ELSE <<>>)
       \o SelectTargets(Tail(targets), mag, locNames)

\* faulty variant: an empty registry marks the event alerted
OnTargetsCommitEmpty(targets, selected) ==
  IF targets = <<>> THEN "markAlerted"
  ELSE IF selected = <<>> THEN "markAlerted"
  ELSE "send"

\* faulty variant: no target selected returns without marking the event alerted
OnTargetsNoCommit(targets, selected) ==
  IF targets = <<>> THEN "return"
  ELSE IF selected = <<>> THEN "return"
  ELSE "send"

\* after loadTargets and the filter: return when the registry is empty, mark
\* the event alerted when no target is selected, otherwise send
OnTargets(targets, selected) ==
  IF targets = <<>> THEN "return"
  ELSE IF selected = <<>> THEN "markAlerted"
  ELSE "send"

\* faulty variant: the event is marked alerted whatever okCount is
OnLoopEndAlways(okCount) == "markAlerted"

\* faulty variant: the event is never marked alerted after the loop
OnLoopEndNever(okCount) == "return"

\* faulty variant: okCount > 1
OnLoopEndOffByOne(okCount) == IF okCount > 1 THEN "markAlerted" ELSE "return"

\* after the dispatch loop: okCount > 0 ? markAlerted : return
OnLoopEnd(okCount) == IF okCount > 0 THEN "markAlerted" ELSE "return"

\* CANAL === "call" ? twilioCall : twilioSms
ChannelOf(canal) == IF canal = <<"c", "a", "l", "l">> THEN "call" ELSE "sms"

\* the key the dedup check reads
DedupKey == "last_alerted_event_id"

\* String(t.phone || "").trim()
PhoneOf(t) == Trim(ToStr(t.phone))

\* the first index from i on whose phone is not empty (the loop's `continue`),
\* Len + 1 when there is none
RECURSIVE NextSend(_, _)
NextSend(sel, i) ==
  IF i > Len(sel) THEN i
  ELSE IF PhoneOf(sel[i]) = <<>> THEN NextSend(sel, i + 1)
  ELSE i

(* ------------------------------------------------------------------ *)
(* State                                                              *)
(* ------------------------------------------------------------------ *)

VARIABLES
  env,    \* the worker's configuration (bindings and variables)
  kv,     \* the store YATI_KV: key -> <<>> (absent) or <<value>>
  clock,  \* ticks started so far; the value of new Date()
  tk,     \* per invocation of checkForNewEvent: its position and locals
  last,   \* record of the most recently finished tick
  prev,   \* record of the tick finished before it
  hist,   \* per finished tick, in order: its feed id and how it ended
  web,    \* per request to /test-alert, in order: the request, the status
          \* of the response and the manual alert it started
  pub     \* the minutes elapsed and, per request to /public, in order: the
          \* response and the background refresh it scheduled

vars == <<env, kv, clock, tk, last, prev, hist, web, pub>>

Keys ==
  {"last_seen_event_id", "last_seen_mag", "last_seen_at",
   "last_alerted_event_id", "last_alerted_payload_id", "last_alerted_mag",
   "last_alerted_at", "alert_targets_v1"}

SeenKeys == {"last_seen_event_id", "last_seen_mag", "last_seen_at"}

AlertedKeys ==
  {"last_alerted_event_id", "last_alerted_payload_id", "last_alerted_mag",
   "last_alerted_at"}

\* the keys of the cached public page
PublicKeys == {"public_html_v1", "public_html_last_at"}

EmptyKV == [k \in Keys \cup PublicKeys |-> <<>>]

NoPub == [now |-> 0, hits |-> <<>>]

Procs == {"t1", "t2"}

\* parseFloat(env.MIN_EVENT_MAGNITUDE || "4")
MinEventMagnitude(e) ==
  ParseFloat(IF e.MIN_EVENT_MAGNITUDE = <<>> THEN <<"4">> ELSE e.MIN_EVENT_MAGNITUDE)

\* (env.ALERTA_CANAL || "sms").toLowerCase()
Canal(e) == ToLower(IF e.ALERTA_CANAL = <<>> THEN <<"s", "m", "s">> ELSE e.ALERTA_CANAL)

NoData == [top |-> LUndef, events |-> LUndef, data |-> LUndef, results |-> LUndef]
NoResponse == [st |-> "none", data |-> NoData]
NoEvento ==
  [magnitud |-> JUndef, id |-> JUndef, event_id |-> JUndef,
   evento_id |-> JUndef, ID |-> JUndef]
NoPayload == [evento |-> NoEvento, localidades |-> LUndef]
NoEnrichment == [st |-> "none", payload |-> NoPayload]

\* the locals of an invocation that is not running
Idle ==
  [pc |-> "idle", latestId |-> <<>>, M |-> NaN, mag |-> NaN, payloadId |-> <<>>,
   selected |-> <<>>, i |-> 0, okCount |-> 0, w |-> 0, why |-> "none",
   kv0 |-> EmptyKV, feed |-> NoResponse, enr |-> NoEnrichment, reg |-> <<>>,
   nFeed |-> 0, nEnrich |-> 0, nReg |-> 0, nMark |-> 0, sent |-> <<>>, h0 |-> 0]

\* what is recorded of a finished tick: how it ended (the log line it
\* returned after), the store before and after, what it received and did,
\* and how many ticks had finished when it started
Summary(t, outcome, store) ==
  [outcome |-> outcome, kv0 |-> t.kv0, kv1 |-> store, feed |-> t.feed,
   id |-> t.latestId, M |-> t.M, enr |-> t.enr, reg |-> t.reg, mag |-> t.mag,
   payloadId |-> t.payloadId, selected |-> t.selected, sent |-> t.sent,
   okCount |-> t.okCount, nFeed |-> t.nFeed, nEnrich |-> t.nEnrich, nReg |-> t.nReg,
   nMark |-> t.nMark, h0 |-> t.h0]

NoTick == Summary(Idle, "none", EmptyKV)

\* faulty variant: markSeen's first put writes the alerted key
MarkSeenPutAlertedKey(store, w, eventId, mag, now) ==
  CASE w = 1 -> [store EXCEPT !["last_alerted_event_id"] = <<eventId>>]
    [] w = 2 -> [store EXCEPT !["last_seen_mag"] = <<mag>>]
    [] OTHER -> [store EXCEPT !["last_seen_at"] = <<now>>]

\* markSeen, put by put
MarkSeenPut(store, w, eventId, mag, now) ==
  CASE w = 1 -> [store EXCEPT !["last_seen_event_id"] = <<eventId>>]
    [] w = 2 -> [store EXCEPT !["last_seen_mag"] = <<mag>>]
    [] OTHER -> [store EXCEPT !["last_seen_at"] = <<now>>]

\* faulty variant: markAlerted's last put also rewrites the dedup key
MarkAlertedPutRewrites(store, w, eventId, mag, payloadId, now) ==
  CASE w = 1 -> [store EXCEPT !["last_alerted_event_id"] = <<eventId>>]
    [] w = 2 -> [store EXCEPT !["last_alerted_payload_id"] =
                   <<IF payloadId # <<>> THEN payloadId ELSE eventId>>]
    [] w = 3 -> [store EXCEPT !["last_alerted_mag"] = <<mag>>]
    [] OTHER -> [store EXCEPT !["last_alerted_at"] = <<now>>,
                              !["last_alerted_event_id"] = <<payloadId>>]

\* faulty variant: markAlerted's first put writes the seen key
MarkAlertedPutSeenKey(store, w, eventId, mag, payloadId, now) ==
  CASE w = 1 -> [store EXCEPT !["last_seen_event_id"] = <<eventId>>]
    [] w = 2 -> [store EXCEPT !["last_alerted_payload_id"] =
                   <<IF payloadId # <<>> THEN payloadId ELSE eventId>>]
    [] w = 3 -> [store EXCEPT !["last_alerted_mag"] = <<mag>>]
    [] OTHER -> [store EXCEPT !["last_alerted_at"] = <<now>>]

\* faulty variant: the enrichment's id is stored as the dedup key
MarkAlertedPutPayloadKey(store, w, eventId, mag, payloadId, now) ==
  CASE w = 1 -> [store EXCEPT !["last_alerted_event_id"] =
                   <<IF payloadId # <<>> THEN payloadId ELSE eventId>>]
    [] w = 2 -> [store EXCEPT !["last_alerted_payload_id"] =
                   <<IF payloadId # <<>> THEN payloadId ELSE eventId>>]
    [] w = 3 -> [store EXCEPT !["last_alerted_mag"] = <<mag>>]
    [] OTHER -> [store EXCEPT !["last_alerted_at"] = <<now>>]

\* markAlerted, put by put
MarkAlertedPut(store, w, eventId, mag, payloadId, now) ==
  CASE w = 1 -> [store EXCEPT !["last_alerted_event_id"] = <<eventId>>]
    [] w = 2 -> [store EXCEPT !["last_alerted_payload_id"] =
                   <<IF payloadId # <<>> THEN payloadId ELSE eventId>>]
    [] w = 3 -> [store EXCEPT !["last_alerted_mag"] = <<mag>>]
    [] OTHER -> [store EXCEPT !["last_alerted_at"] = <<now>>]

(* ------------------------------------------------------------------ *)
(* Steps of checkForNewEvent (one per awaited call)                   *)
(* ------------------------------------------------------------------ *)

Continue(p, t) ==
  /\ tk' = [tk EXCEPT ![p] = t]
  /\ UNCHANGED <<last, prev, hist, web, pub>>

\* the invocation returns
Finish(p, t, outcome, store) ==
  /\ tk' = [tk EXCEPT ![p] = Idle]
  /\ last' = Summary(t, outcome, store)
  /\ prev' = last
  /\ hist' = Append(hist, [id |-> t.latestId, outcome |-> outcome])
  /\ UNCHANGED <<web, pub>>

\* faulty variant: the store binding is not checked
StartTickNoKVCheck(p, maxTicks) ==
  /\ tk[p].pc = "idle"
  /\ clock < maxTicks
  /\ clock' = clock + 1
  /\ UNCHANGED <<env, kv>>
  /\ LET t == [Idle EXCEPT !.kv0 = kv, !.h0 = Len(hist)]
     IN IF ~env.RAILWAY_BASE_URL THEN Finish(p, t, "noBaseUrl", kv)
        ELSE Continue(p, [t EXCEPT !.pc = "feed"])

\* scheduled(): the checks of the configuration, then the feed request
StartTick(p, maxTicks) ==
  /\ tk[p].pc = "idle"
  /\ clock < maxTicks
  /\ clock' = clock + 1
  /\ UNCHANGED <<env, kv>>
  /\ LET t == [Idle EXCEPT !.kv0 = kv, !.h0 = Len(hist)]
     IN IF ~env.RAILWAY_BASE_URL THEN Finish(p, t, "noBaseUrl", kv)
        ELSE IF ~env.YATI_KV THEN Finish(p, t, "noKV", kv)
        ELSE Continue(p, [t EXCEPT !.pc = "feed"])

\* faulty variant: a magnitude that is not finite does not end the tick
FeedFetchNoMagCheck(p, responses) ==
  /\ tk[p].pc = "feed"
  /\ UNCHANGED <<env, kv, clock>>
  /\ \E r \in responses :
       \E events \in {EventsOf(r.data)} : \E latest \in {FirstOf(events)} :
         \E latestId \in {LatestIdOf(latest)}, M \in {FeedMagnitude(latest)} :
           LET t == [tk[p] EXCEPT !.feed = r, !.nFeed = @ + 1]
           IN IF r.st # "ok" THEN Finish(p, t, "feedError", kv)
              ELSE IF NoEvents(events) THEN Finish(p, t, "noEvents", kv)
              ELSE IF latestId = <<>> THEN Finish(p, t, "noId", kv)
              ELSE Continue(p, [t EXCEPT !.latestId = latestId, !.M = M, !.pc = "seenGet"])

\* 1) the feed answers; the latest event's id and magnitude are read
FeedFetch(p, responses) ==
  /\ tk[p].pc = "feed"
  /\ UNCHANGED <<env, kv, clock>>
  /\ \E r \in responses :
       \E events \in {EventsOf(r.data)} : \E latest \in {FirstOf(events)} :
         \E latestId \in {LatestIdOf(latest)}, M \in {FeedMagnitude(latest)} :
           LET t == [tk[p] EXCEPT !.feed = r, !.nFeed = @ + 1]
           IN IF r.st # "ok" THEN Finish(p, t, "feedError", kv)
              ELSE IF NoEvents(events) THEN Finish(p, t, "noEvents", kv)
              ELSE IF latestId = <<>> THEN Finish(p, t, "noId", kv)
              ELSE IF M.nan THEN Finish(p, [t EXCEPT !.latestId = latestId], "badMagnitude", kv)
              ELSE Continue(p, [t EXCEPT !.latestId = latestId, !.M = M, !.pc = "seenGet"])

\* faulty variant: the seen watermark is never refreshed
SeenGetSkips(p) ==
  /\ tk[p].pc = "seenGet"
  /\ UNCHANGED <<env, kv, clock>>
  /\ Continue(p, [tk[p] EXCEPT !.pc = "alertedGet"])

\* faulty variant: markSeen is skipped while nothing has been seen yet
SeenGetSkipsFirst(p) ==
  /\ tk[p].pc = "seenGet"
  /\ UNCHANGED <<env, kv, clock>>
  /\ IF kv["last_seen_event_id"] # <<>> /\ kv["last_seen_event_id"] # <<tk[p].latestId>>
     THEN Continue(p, [tk[p] EXCEPT !.pc = "markSeen", !.w = 1])
     ELSE Continue(p, [tk[p] EXCEPT !.pc = "alertedGet"])

\* 2) last_seen_event_id is read
SeenGet(p) ==
  /\ tk[p].pc = "seenGet"
  /\ UNCHANGED <<env, kv, clock>>
  /\ IF kv["last_seen_event_id"] # <<tk[p].latestId>>
     THEN Continue(p, [tk[p] EXCEPT !.pc = "markSeen", !.w = 1])
     ELSE Continue(p, [tk[p] EXCEPT !.pc = "alertedGet"])

\* one put of markSeen
SeenPut(p) ==
  /\ tk[p].pc = "markSeen"
  /\ kv' = MarkSeenPut(kv, tk[p].w, tk[p].latestId, tk[p].M, clock)
  /\ UNCHANGED <<env, clock>>
  /\ IF tk[p].w < 3
     THEN Continue(p, [tk[p] EXCEPT !.w = @ + 1])
     ELSE Continue(p, [tk[p] EXCEPT !.pc = "alertedGet", !.w = 0])

\* faulty variant: the id alerted last is also remembered in the worker's
\* memory, and an event found there is not alerted again
AlertedGetRemembers(p) ==
  /\ tk[p].pc = "alertedGet"
  /\ UNCHANGED <<env, kv, clock>>
  /\ IF \/ AlreadyAlerted(kv[DedupKey], tk[p].latestId)
        \/ \E i \in 1..Len(hist) :
             hist[i].id = tk[p].latestId /\ hist[i].outcome \in {"sent", "noneSelected"}
     THEN Finish(p, tk[p], "alreadyAlerted", kv)
     ELSE IF BelowThreshold(tk[p].M, MinEventMagnitude(env))
     THEN Finish(p, tk[p], "belowThreshold", kv)
     ELSE Continue(p, [tk[p] EXCEPT !.pc = "enrich"])

\* 3) last_alerted_event_id is read; the dedup check and the global gate
AlertedGet(p) ==
  /\ tk[p].pc = "alertedGet"
  /\ UNCHANGED <<env, kv, clock>>
  /\ IF AlreadyAlerted(kv[DedupKey], tk[p].latestId)
     THEN Finish(p, tk[p], "alreadyAlerted", kv)
     ELSE IF BelowThreshold(tk[p].M, MinEventMagnitude(env))
     THEN Finish(p, tk[p], "belowThreshold", kv)
     ELSE Continue(p, [tk[p] EXCEPT !.pc = "enrich"])

\* faulty variant: a failed enrichment marks the event alerted
EnrichFetchBlacklists(p, responses) ==
  /\ tk[p].pc = "enrich"
  /\ UNCHANGED <<env, kv, clock>>
  /\ \E r \in responses :
       LET t == [tk[p] EXCEPT !.enr = r, !.nEnrich = @ + 1]
       IN IF r.st # "ok"
          THEN Continue(p, [t EXCEPT !.pc = "markAlerted", !.w = 1,
                                     !.why = "enrichError"])
          ELSE Continue(p, [t EXCEPT
                 !.mag = EffectiveMag(r.payload.evento, t.M),
                 !.payloadId = PayloadIdOf(r.payload.evento, t.latestId),
                 !.pc = "targets"])

\* faulty variant: an enrichment fetch that fails is tried once more
EnrichFetchRetries(p, responses) ==
  /\ tk[p].pc = "enrich"
  /\ UNCHANGED <<env, kv, clock>>
  /\ \E r \in responses :
       LET t == [tk[p] EXCEPT !.enr = r, !.nEnrich = @ + 1]
       IN IF r.st # "ok" /\ t.nEnrich < 2 THEN Continue(p, t)
          ELSE IF r.st # "ok" THEN Finish(p, t, "enrichError", kv)
          ELSE Continue(p, [t EXCEPT
                 !.mag = EffectiveMag(r.payload.evento, t.M),
                 !.payloadId = PayloadIdOf(r.payload.evento, t.latestId),
                 !.pc = "targets"])

\* 4) the enrichment service answers
EnrichFetch(p, responses) ==
  /\ tk[p].pc = "enrich"
  /\ UNCHANGED <<env, kv, clock>>
  /\ \E r \in responses :
       LET t == [tk[p] EXCEPT !.enr = r, !.nEnrich = @ + 1]
       IN IF r.st # "ok" THEN Finish(p, t, "enrichError", kv)
          ELSE Continue(p, [t EXCEPT
                 !.mag = EffectiveMag(r.payload.evento, t.M),
                 !.payloadId = PayloadIdOf(r.payload.evento, t.latestId),
                 !.pc = "targets"])

\* faulty variant: the loop ends at the first send that throws
AfterSendAbortOnFailure(p, t, from) ==
  LET j == IF t.sent # <<>> /\ ~t.sent[Len(t.sent)].ok
           THEN Len(t.selected) + 1
           ELSE NextSend(t.selected, from)
  IN IF j <= Len(t.selected) THEN Continue(p, [t EXCEPT !.pc = "dispatch", !.i = j])
     ELSE IF OnLoopEnd(t.okCount) = "markAlerted"
     THEN Continue(p, [t EXCEPT !.pc = "markAlerted", !.w = 1, !.why = "sent",
                                !.nMark = @ + 1])
     ELSE Finish(p, t, "nothingSent", kv)

\* faulty variant: the event is marked alerted at the first send that
\* succeeds, the targets left unattempted
AfterSendCommitsEarly(p, t, from) ==
  LET j == NextSend(t.selected, from)
  IN IF t.okCount > 0
     THEN Continue(p, [t EXCEPT !.pc = "markAlerted", !.w = 1, !.why = "sent",
                                !.nMark = @ + 1])
     ELSE IF j <= Len(t.selected) THEN Continue(p, [t EXCEPT !.pc = "dispatch", !.i = j])
     ELSE Finish(p, t, "nothingSent", kv)

\* faulty variant: the event is marked alerted only when no send failed, so
\* a partly delivered event is dispatched again by the next tick
AfterSendCommitsWhenComplete(p, t, from) ==
  LET j == NextSend(t.selected, from)
  IN IF j <= Len(t.selected) THEN Continue(p, [t EXCEPT !.pc = "dispatch", !.i = j])
     ELSE IF t.okCount > 0 /\ t.okCount = Len(t.sent)
     THEN Continue(p, [t EXCEPT !.pc = "markAlerted", !.w = 1, !.why = "sent",
                                !.nMark = @ + 1])
     ELSE Finish(p, t, "nothingSent", kv)

\* what the dispatch loop does once target i is dealt with: the next target
\* with a phone, or the end of the loop and the decision on okCount
AfterSend(p, t, from) ==
  LET j == NextSend(t.selected, from)
  IN IF j <= Len(t.selected) THEN Continue(p, [t EXCEPT !.pc = "dispatch", !.i = j])
     ELSE IF OnLoopEnd(t.okCount) = "markAlerted"
     THEN Continue(p, [t EXCEPT !.pc = "markAlerted", !.w = 1, !.why = "sent",
                                !.nMark = @ + 1])
     ELSE Finish(p, t, "nothingSent", kv)

\* 5) and 6) the registry is read and filtered
TargetsGet(p) ==
  /\ tk[p].pc = "targets"
  /\ UNCHANGED <<env, kv, clock>>
  /\ LET targets == LoadTargets(kv["alert_targets_v1"])
         locNames == LocNamesOf(LocsOf(tk[p].enr.payload))
         selected == SelectTargets(targets, tk[p].mag, locNames)
         t == [tk[p] EXCEPT !.reg = kv["alert_targets_v1"], !.nReg = @ + 1,
                            !.selected = selected]
         todo == OnTargets(targets, selected)
     IN IF todo = "return" THEN Finish(p, [t EXCEPT !.selected = <<>>], "noTargets", kv)
        ELSE IF todo = "markAlerted"
        THEN Continue(p, [t EXCEPT !.pc = "markAlerted", !.w = 1,
                                   !.why = "noneSelected", !.nMark = @ + 1])
        ELSE AfterSend(p, t, 1)

\* 8) one send to the carrier, which succeeds or throws
Dispatch(p, outcomes) ==
  /\ tk[p].pc = "dispatch"
  /\ UNCHANGED <<env, kv, clock>>
  /\ \E ok \in outcomes :
       LET t == [tk[p] EXCEPT
                  !.sent = Append(@, [to |-> PhoneOf(tk[p].selected[tk[p].i]),
                                      via |-> ChannelOf(Canal(env)), ok |-> ok]),
                  !.okCount = IF ok THEN @ + 1 ELSE @]
       IN AfterSend(p, t, tk[p].i + 1)

\* one put of markAlerted
AlertedPut(p) ==
  /\ tk[p].pc = "markAlerted"
  /\ kv' = MarkAlertedPut(kv, tk[p].w, tk[p].latestId, tk[p].mag, tk[p].payloadId, clock)
  /\ UNCHANGED <<env, clock>>
  /\ IF tk[p].w < 4
     THEN Continue(p, [tk[p] EXCEPT !.w = @ + 1])
     ELSE Finish(p, tk[p], tk[p].why, kv')

\* a get or put of the store that checkForNewEvent, markSeen or markAlerted
\* awaits outside any try rejects: the invocation rejects at that await
StoreRejects(p) ==
  /\ tk[p].pc \in {"seenGet", "markSeen", "alertedGet", "markAlerted"}
  /\ UNCHANGED <<env, kv, clock>>
  /\ Finish(p, tk[p], "rejected", kv)

\* the get of the registry rejects: loadTargets catches and returns []
TargetsGetRejects(p) ==
  /\ tk[p].pc = "targets"
  /\ UNCHANGED <<env, kv, clock>>
  /\ Finish(p, [tk[p] EXCEPT !.nReg = @ + 1], "noTargets", kv)

\* the registry is edited from outside, between ticks
SetTargets(registries) ==
  /\ \A p \in Procs : tk[p].pc = "idle"
  /\ \E r \in registries :
       /\ kv["alert_targets_v1"] # r
       /\ kv' = [kv EXCEPT !["alert_targets_v1"] = r]
  /\ UNCHANGED <<env, clock, tk, last, prev, hist, web, pub>>

\* the store is put back, from outside and between ticks, to what it held
\* when the tick that finished last started
Restore ==
  /\ \A p \in Procs : tk[p].pc = "idle"
  /\ last.outcome # "none"
  /\ kv # last.kv0
  /\ kv' = last.kv0
  /\ UNCHANGED <<env, clock, tk, last, prev, hist, web, pub>>

(* ------------------------------------------------------------------ *)
(* The fetch handler: /test-alert and testManualAlert                 *)
(* ------------------------------------------------------------------ *)

\* A query parameter or a variable of the environment is a string, <<>>
\* when it is absent or empty (both are falsy, and `|| ""` makes them equal).

NoJob == [pc |-> "none", queue |-> <<>>, i |-> 0, sent |-> <<>>]

\* faulty variant: a missing PIN secret is not checked
TestAlertStatusNoSecretCheck(e, pin) ==
  IF e.ENABLE_TEST_ALERT # <<"1">> THEN 404
  ELSE IF pin # e.TEST_ALERT_PIN THEN 401
  ELSE 200

\* the status of the response to GET /test-alert?pin=...
TestAlertStatus(e, pin) ==
  IF e.ENABLE_TEST_ALERT # <<"1">> THEN 404
  ELSE IF e.TEST_ALERT_PIN = <<>> \/ pin # e.TEST_ALERT_PIN THEN 401
  ELSE 200

\* testManualAlert up to its first await: the send to forceTo when there is
\* one, the read of the registry otherwise
StartManualAlert(forceTo) ==
  IF Trim(forceTo) # <<>>
  THEN [NoJob EXCEPT !.pc = "send", !.queue = <<Trim(forceTo)>>, !.i = 1]
  ELSE [NoJob EXCEPT !.pc = "load"]

\* the phones of the enabled targets, in order, as twilioSms trims them
RECURSIVE EnabledPhones(_)
EnabledPhones(targets) ==
  IF targets = <<>> THEN <<>>
  ELSE (IF Head(targets).enabled THEN <<PhoneOf(Head(targets))>> ELSE <<>>)
       \o EnabledPhones(Tail(targets))

\* GET /test-alert: 404, 401, or the manual alert is started under
\* ctx.waitUntil and the response "OK - test alert triggered" is returned
TestAlert(pins, tos, maxRequests) ==
  /\ Len(web) < maxRequests
  /\ \E pin \in pins, to \in tos :
       LET status == TestAlertStatus(env, pin)
           forceTo == IF to # <<>> THEN to ELSE env.TEST_ALERT_TO
       IN web' = Append(web, [pin |-> pin, to |-> to, status |-> status,
                              job |-> IF status = 200 THEN StartManualAlert(forceTo)
                                      ELSE NoJob])
  /\ UNCHANGED <<env, kv, clock, tk, last, prev, hist, pub>>

\* faulty variant: the manual alert is skipped once an event was alerted
ManualLoadDeduped(r) ==
  /\ r \in 1..Len(web)
  /\ web[r].job.pc = "load"
  /\ LET queue == IF kv["last_alerted_event_id"] # <<>> THEN <<>>
                  ELSE EnabledPhones(LoadTargets(kv["alert_targets_v1"]))
     IN web' = [web EXCEPT ![r].job =
                  IF queue = <<>> THEN [@ EXCEPT !.pc = "done"]
                  ELSE [@ EXCEPT !.pc = "send", !.queue = queue, !.i = 1]]
  /\ UNCHANGED <<env, kv, clock, tk, last, prev, hist, pub>>

\* testManualAlert: loadTargets answers
ManualLoad(r) ==
  /\ r \in 1..Len(web)
  /\ web[r].job.pc = "load"
  /\ LET queue == EnabledPhones(LoadTargets(kv["alert_targets_v1"]))
     IN web' = [web EXCEPT ![r].job =
                  IF queue = <<>> THEN [@ EXCEPT !.pc = "done"]
                  ELSE [@ EXCEPT !.pc = "send", !.queue = queue, !.i = 1]]
  /\ UNCHANGED <<env, kv, clock, tk, last, prev, hist, pub>>

\* testManualAlert: a send succeeds, or throws and the manual alert rejects
\* there (no try around it)
ManualSend(r, outcomes) ==
  /\ r \in 1..Len(web)
  /\ web[r].job.pc = "send"
  /\ \E ok \in outcomes :
       web' = [web EXCEPT ![r].job =
                 [@ EXCEPT !.sent = Append(@, [to |-> web[r].job.queue[web[r].job.i],
                                               ok |-> ok]),
                           !.i = @ + 1,
                           !.pc = IF ~ok THEN "rejected"
                                  ELSE IF web[r].job.i < Len(web[r].job.queue) THEN "send"
                                  ELSE "done"]]
  /\ UNCHANGED <<env, kv, clock, tk, last, prev, hist, pub>>

(* ------------------------------------------------------------------ *)
(* The fetch handler: /public, servePublicHtml and refreshPublicHtml  *)
(* ------------------------------------------------------------------ *)

\* The revision of index.js that starts at line 117 adds the cached public
\* page.  An HTML text is a record [len, rel]: its length in characters and
\* the number of its src and href attributes with a relative path ("" has
\* length 0).  Time is counted in minutes (pub.now).

Page(len, rel) == [len |-> len, rel |-> rel]

\* the length of RAILWAY_BASE_URL without its trailing slash
BaseLen == 20

\* absolutizeAssets: the base is put in front of every relative path
AbsolutizeAssets(html, base) ==
  IF ~base THEN html ELSE Page(html.len + html.rel * BaseLen, 0)

\* parseInt(s, 10): leading blanks, an optional sign, digits; NaN when no
\* digit was read
ParseInt(s) ==
  LET t == SkipSpaces(s)
      signed == t # <<>> /\ Head(t) \in {"-", "+"}
      ds == DigitRun(IF signed THEN Tail(t) ELSE t)
  IN IF ds = <<>> THEN NaN
     ELSE IF signed /\ Head(t) = "-" THEN Num(0 - DigitsToNat(ds))
     ELSE Num(DigitsToNat(ds))

\* String(env.PUBLIC_REFRESH_FORCE_ON_EMPTY || "1") === "1"
ForceOnEmpty(e) ==
  (IF e.PUBLIC_REFRESH_FORCE_ON_EMPTY = <<>> THEN <<"1">>
   ELSE e.PUBLIC_REFRESH_FORCE_ON_EMPTY) = <<"1">>

\* parseInt(env.PUBLIC_REFRESH_MINUTES || "0", 10)
RefreshMinutes(e) ==
  ParseInt(IF e.PUBLIC_REFRESH_MINUTES = <<>> THEN <<"0">> ELSE e.PUBLIC_REFRESH_MINUTES)

\* new Date().toISOString() at minute n, and Date.parse of a string
ToISOString(n) == <<"T">> \o NatToStr(n)
DateParse(str) ==
  IF str # <<>> /\ Head(str) = "T" /\ Tail(str) # <<>> /\ DigitRun(Tail(str)) = Tail(str)
  THEN Num(DigitsToNat(Tail(str)))
  ELSE NaN

\* shouldRefresh(lastAtIso, minutes) at minute `now`
ShouldRefresh(lastAt, minutes, now) ==
  IF lastAt = <<>> \/ lastAt[1] = <<>> THEN TRUE
  ELSE LET t == DateParse(lastAt[1])
       IN IF t.nan THEN TRUE ELSE now - t.v > minutes

\* !html || html.length < 200
TooShort(html) == html = <<>> \/ html[1].len < 200

NoRefresh ==
  [pc |-> "none", reason |-> "none", html |-> Page(0, 0), build |-> "none",
   fetched |-> "none", puts |-> 0]

Answer(status, body, html, refresh) ==
  [status |-> status, body |-> body, html |-> html, refresh |-> refresh]

NoAnswer == Answer(0, "none", <<>>, "none")

\* faulty variant: only a missing snapshot is healed, a short one is served
ServePublicHtmlOnlyMissing(e, html, lastAt, now) ==
  IF (html = <<>> \/ html[1].len = 0) /\ ForceOnEmpty(e)
  THEN Answer(200, "generating", <<>>, "self-heal-empty")
  ELSE LET m == RefreshMinutes(e)
           refresh == IF ~m.nan /\ m.v > 0 /\ ShouldRefresh(lastAt, m.v, now)
                      THEN "periodic-refresh" ELSE "none"
       IN IF html = <<>> \/ html[1].len = 0
          THEN Answer(200, "notYet", <<>>, refresh)
          ELSE Answer(200, "snapshot", html, refresh)

\* servePublicHtml once both keys are read: the response and the reason of
\* the refresh it hands to ctx.waitUntil ("none" when it hands none)
ServePublicHtml(e, html, lastAt, now) ==
  IF TooShort(html) /\ ForceOnEmpty(e)
  THEN Answer(200, "generating", <<>>, "self-heal-empty")
  ELSE LET m == RefreshMinutes(e)
           refresh == IF ~m.nan /\ m.v > 0 /\ ShouldRefresh(lastAt, m.v, now)
                      THEN "periodic-refresh" ELSE "none"
       IN IF html = <<>> \/ html[1].len = 0
          THEN Answer(200, "notYet", <<>>, refresh)
          ELSE Answer(200, "snapshot", html, refresh)

\* GET /public: 500 without the binding; otherwise public_html_v1 is read
PublicGet(maxHits) ==
  /\ Len(pub.hits) < maxHits
  /\ pub' = [pub EXCEPT !.hits = Append(@,
              IF ~env.YATI_KV
              THEN [pc |-> "responded", html |-> <<>>, lastAt |-> <<>>, now |-> pub.now,
                    resp |-> Answer(500, "noKV", <<>>, "none"), job |-> NoRefresh]
              ELSE [pc |-> "lastAt", html |-> kv["public_html_v1"], lastAt |-> <<>>,
                    now |-> pub.now, resp |-> NoAnswer, job |-> NoRefresh])]
  /\ UNCHANGED <<env, kv, clock, tk, last, prev, hist, web>>

\* public_html_last_at is read, the refresh (if any) is handed to
\* ctx.waitUntil and the response is returned
PublicRespond(h) ==
  /\ h \in 1..Len(pub.hits)
  /\ pub.hits[h].pc = "lastAt"
  /\ LET resp == ServePublicHtml(env, pub.hits[h].html, kv["public_html_last_at"], pub.now)
     IN pub' = [pub EXCEPT !.hits[h] =
                  [@ EXCEPT !.pc = "responded", !.lastAt = kv["public_html_last_at"],
                            !.now = pub.now, !.resp = resp,
                            !.job = IF resp.refresh = "none" THEN NoRefresh
                                    ELSE [NoRefresh EXCEPT !.pc = "start",
                                                           !.reason = resp.refresh]]]
  /\ UNCHANGED <<env, kv, clock, tk, last, prev, hist, web>>

\* refreshPublicHtml: the token is read; without the binding, the base URL
\* or the token the refresh returns
RefreshStart(h) ==
  /\ h \in 1..Len(pub.hits)
  /\ pub.hits[h].job.pc = "start"
  /\ pub' = [pub EXCEPT !.hits[h].job.pc =
              IF ~env.YATI_KV \/ ~env.RAILWAY_BASE_URL
                 \/ env.RAILWAY_BUILD_PUBLIC_TOKEN = <<>>
              THEN "skipped" ELSE "build"]
  /\ UNCHANGED <<env, kv, clock, tk, last, prev, hist, web>>

\* the call of /build-public throws (the refresh rejects), answers with a
\* non-success status (the refresh returns) or succeeds
RefreshBuild(h, responses) ==
  /\ h \in 1..Len(pub.hits)
  /\ pub.hits[h].job.pc = "build"
  /\ \E r \in responses :
       pub' = [pub EXCEPT !.hits[h].job =
                 [@ EXCEPT !.build = r,
                           !.pc = IF r = "throws" THEN "rejected"
                                  ELSE IF r = "notOk" THEN "buildFailed"
                                  ELSE "fetch"]]
  /\ UNCHANGED <<env, kv, clock, tk, last, prev, hist, web>>

\* faulty variant: the fetched HTML is stored whatever its length
RefreshFetchNoLengthCheck(h, responses) ==
  /\ h \in 1..Len(pub.hits)
  /\ pub.hits[h].job.pc = "fetch"
  /\ \E r \in responses :
       pub' = [pub EXCEPT !.hits[h].job =
                 [@ EXCEPT !.fetched = r.status,
                           !.html = IF r.status = "ok"
                                    THEN AbsolutizeAssets(r.html, env.RAILWAY_BASE_URL)
                                    ELSE @,
                           !.pc = IF r.status = "throws" THEN "rejected"
                                  ELSE IF r.status = "notOk" THEN "badHtml"
                                  ELSE "putHtml"]]
  /\ UNCHANGED <<env, kv, clock, tk, last, prev, hist, web>>

\* the fetch of the origin's /public throws, or answers: a non-success
\* status or a text shorter than 200 characters makes the refresh return
RefreshFetch(h, responses) ==
  /\ h \in 1..Len(pub.hits)
  /\ pub.hits[h].job.pc = "fetch"
  /\ \E r \in responses :
       LET bad == r.status = "notOk" \/ r.html.len = 0 \/ r.html.len < 200
       IN pub' = [pub EXCEPT !.hits[h].job =
                    [@ EXCEPT !.fetched = r.status,
                              !.html = IF r.status = "throws" \/ bad THEN @
                                       ELSE AbsolutizeAssets(r.html, env.RAILWAY_BASE_URL),
                              !.pc = IF r.status = "throws" THEN "rejected"
                                     ELSE IF bad THEN "badHtml"
                                     ELSE "putHtml"]]
  /\ UNCHANGED <<env, kv, clock, tk, last, prev, hist, web>>

\* put("public_html_v1", html)
RefreshPutHtml(h) ==
  /\ h \in 1..Len(pub.hits)
  /\ pub.hits[h].job.pc = "putHtml"
  /\ kv' = [kv EXCEPT !["public_html_v1"] = <<pub.hits[h].job.html>>]
  /\ pub' = [pub EXCEPT !.hits[h].job = [@ EXCEPT !.pc = "putAt", !.puts = @ + 1]]
  /\ UNCHANGED <<env, clock, tk, last, prev, hist, web>>

\* put("public_html_last_at", new Date().toISOString())
RefreshPutAt(h) ==
  /\ h \in 1..Len(pub.hits)
  /\ pub.hits[h].job.pc = "putAt"
  /\ kv' = [kv EXCEPT !["public_html_last_at"] = <<ToISOString(pub.now)>>]
  /\ pub' = [pub EXCEPT !.hits[h].job = [@ EXCEPT !.pc = "done", !.puts = @ + 1]]
  /\ UNCHANGED <<env, clock, tk, last, prev, hist, web>>

\* a minute passes
MinutePasses(maxMinutes) ==
  /\ pub.now < maxMinutes
  /\ pub' = [pub EXCEPT !.now = @ + 1]
  /\ UNCHANGED <<env, kv, clock, tk, last, prev, hist, web>>

(* ------------------------------------------------------------------ *)
(* Inputs                                                             *)
(* ------------------------------------------------------------------ *)

MaxTicks == 2

DefaultEnv ==
  [RAILWAY_BASE_URL |-> TRUE, YATI_KV |-> TRUE, MIN_EVENT_MAGNITUDE |-> <<>>,
   ALERTA_CANAL |-> <<>>, ENABLE_TEST_ALERT |-> <<>>, TEST_ALERT_PIN |-> <<>>,
   TEST_ALERT_TO |-> <<>>, PUBLIC_REFRESH_FORCE_ON_EMPTY |-> <<>>,
   PUBLIC_REFRESH_MINUTES |-> <<>>, RAILWAY_BUILD_PUBLIC_TOKEN |-> <<>>]

Event(id, magnitude, magnitud, mag) ==
  [id |-> id, magnitude |-> magnitude, magnitud |-> magnitud, mag |-> mag]

\* {id: "A", magnitude: "5,2"}
EvA == Event(JStr(<<"A">>), JStr(<<"5", ",", "2">>), JUndef, JUndef)
\* {id: "A", magnitud: 3.9}: the same event with its magnitude revised
EvALow == Event(JStr(<<"A">>), JUndef, JNum(39), JUndef)
\* {id: "B", magnitude: {value: 4.5}}
EvB == Event(JStr(<<"B">>), JObjNum(45), JUndef, JUndef)
\* {id: 7, mag: "3.5"}
EvLow == Event(JNum(70), JUndef, JUndef, JStr(<<"3", ".", "5">>))
\* {id: "D", magnitude: "x"}
EvBadMag == Event(JStr(<<"D">>), JStr(<<"x">>), JUndef, JUndef)

FeedList(xs) == [st |-> "ok", data |-> [NoData EXCEPT !.top = LArr(xs)]]
FeedEvents(xs) == [st |-> "ok", data |-> [NoData EXCEPT !.events = LArr(xs)]]
FeedThrows == [st |-> "throw", data |-> NoData]
FeedNotOk == [st |-> "notok", data |-> NoData]

FeedResponses ==
  {FeedThrows, FeedNotOk, FeedEvents(<<EvA, EvB>>), FeedList(<<EvB>>),
   FeedList(<<EvALow>>), FeedEvents(<<EvLow>>), FeedEvents(<<EvBadMag>>)}

Loc(name) == [localidad |-> JStr(name)]

\* {evento: {magnitud: 5.2, id: "X"}, localidades: [{localidad: "Stgo"}]}
PayloadFull ==
  [evento |-> [NoEvento EXCEPT !.magnitud = JNum(52), !.id = JStr(<<"X">>)],
   localidades |-> LArr(<<Loc(<<"S", "t", "g", "o">>)>>)]
\* {evento: {}, localidades: []}
PayloadBare == [evento |-> NoEvento, localidades |-> LArr(<<>>)]

EnrichOk(payload) == [st |-> "ok", payload |-> payload]
EnrichThrows == [st |-> "throw", payload |-> NoPayload]
EnrichNotOk == [st |-> "notok", payload |-> NoPayload]

EnrichResponses == {EnrichThrows, EnrichNotOk, EnrichOk(PayloadFull), EnrichOk(PayloadBare)}

RawTarget(phone, min_mag, localidad, enabled) ==
  [isNull |-> FALSE, phone |-> phone, min_mag |-> min_mag,
   localidad |-> localidad, enabled |-> enabled]

\* {phone: "+1", min_mag: 4, localidad: "", enabled: true}
T1 == RawTarget(JStr(<<"+", "1">>), JNum(40), JStr(<<>>), JTrue)
\* {phone: "+2", min_mag: 5, localidad: "STGO ", enabled: true}
T2 == RawTarget(JStr(<<"+", "2">>), JNum(50), JStr(<<"S", "T", "G", "O", " ">>), JTrue)
\* {phone: " +3", enabled: true}
T3 == RawTarget(JStr(<<" ", "+", "3">>), JUndef, JUndef, JTrue)
\* {phone: "+4", min_mag: 0, localidad: ""}: not enabled
T4 == RawTarget(JStr(<<"+", "4">>), JNum(0), JStr(<<>>), JUndef)
\* {phone: "+5", min_mag: 9, enabled: true}
T5 == RawTarget(JStr(<<"+", "5">>), JNum(90), JUndef, JTrue)

Registry(xs) == <<[t |-> "arr", items |-> xs]>>
RegistryAbsent == <<>>

Registries == {RegistryAbsent, Registry(<<T1, T2, T3>>), Registry(<<T4, T5>>)}

SendOutcomes == BOOLEAN

(* ------------------------------------------------------------------ *)
(* Specification: ticks that do not overlap                           *)
(* ------------------------------------------------------------------ *)

\* One invocation runs at a time (the scheduler's single-instance guarantee)
\* and every get and put of the store succeeds.  The feed, the enrichment
\* service and the carrier answer as they please; the registry is edited
\* between ticks.

Init ==
  /\ env = DefaultEnv
  /\ kv = EmptyKV
  /\ clock = 0
  /\ tk = [p \in Procs |-> Idle]
  /\ last = NoTick
  /\ prev = NoTick
  /\ hist = <<>>
  /\ web = <<>>
  /\ pub = NoPub

Next ==
  \/ StartTick("t1", MaxTicks)
  \/ FeedFetch("t1", FeedResponses)
  \/ SeenGet("t1")
  \/ SeenPut("t1")
  \/ AlertedGet("t1")
  \/ EnrichFetch("t1", EnrichResponses)
  \/ TargetsGet("t1")
  \/ Dispatch("t1", SendOutcomes)
  \/ AlertedPut("t1")
  \/ SetTargets(Registries)

Spec == Init /\ [][Next]_vars

(* ------------------------------------------------------------------ *)
(* Specification: runs of ticks over events that clear the threshold  *)
(* ------------------------------------------------------------------ *)

\* As Spec, over more ticks, with a feed that always shows an event (A or B)
\* whose magnitude clears the threshold; the enrichment and the carrier may
\* still fail and the registry may still change.

MaxRunTicks == 4

RunFeeds == {FeedEvents(<<EvA, EvB>>), FeedList(<<EvB>>)}
RunEnrich == {EnrichThrows, EnrichOk(PayloadFull)}
RunRegistries == {Registry(<<T1>>), Registry(<<T4, T5>>)}

NextRuns ==
  \/ StartTick("t1", MaxRunTicks)
  \/ FeedFetch("t1", RunFeeds)
  \/ SeenGet("t1")
  \/ SeenPut("t1")
  \/ AlertedGet("t1")
  \/ EnrichFetch("t1", RunEnrich)
  \/ TargetsGet("t1")
  \/ Dispatch("t1", SendOutcomes)
  \/ AlertedPut("t1")
  \/ SetTargets(RunRegistries)

SpecRuns == Init /\ [][NextRuns]_vars

(* ------------------------------------------------------------------ *)
(* Specification: the filter and the dispatch loop over many inputs   *)
(* ------------------------------------------------------------------ *)

\* As Spec, with a feed that always shows event A, the registry and the
\* channel fixed before the first tick, and enrichment answers and registry
\* entries of every shape the filter distinguishes: magnitudes and minimum
\* magnitudes that are numbers, numeric strings or not numeric, locations
\* in either case and with blanks, entries without a phone.

MaxTargetTicks == 1

\* {phone: "+6", min_mag: "abc", localidad: "", enabled: true}
T6 == RawTarget(JStr(<<"+", "6">>), JStr(<<"a", "b", "c">>), JStr(<<>>), JTrue)
\* {min_mag: "4.5", localidad: "stgo", enabled: 1}: no phone
T7 == RawTarget(JUndef, JStr(<<"4", ".", "5">>), JStr(<<"s", "t", "g", "o">>), JNum(10))
\* {phone: "+8", min_mag: 0, localidad: "Arica", enabled: true}
T8 == RawTarget(JStr(<<"+", "8">>), JNum(0), JStr(<<"A", "r", "i", "c", "a">>), JTrue)

TargetPool == {T1, T2, T3, T4, T5, T6, T7, T8}

TargetRegistries ==
  {Registry(<<a>>) : a \in TargetPool}
    \cup {Registry(<<a, b>>) : a \in TargetPool, b \in TargetPool}

\* {evento: {magnitud: "x", id: ""}, localidades: [{localidad: "Stgo"}]}
PayloadBadMag ==
  [evento |-> [NoEvento EXCEPT !.magnitud = JStr(<<"x">>), !.id = JStr(<<>>)],
   localidades |-> LArr(<<Loc(<<"S", "t", "g", "o">>)>>)]
\* {evento: {magnitud: "4.5", event_id: 9}, localidades: [{localidad: "ARICA"}, {}]}
PayloadLow ==
  [evento |-> [NoEvento EXCEPT !.magnitud = JStr(<<"4", ".", "5">>),
                               !.event_id = JNum(90)],
   localidades |-> LArr(<<Loc(<<"A", "R", "I", "C", "A">>), [localidad |-> JUndef]>>)]

TargetEnrich ==
  {EnrichOk(PayloadFull), EnrichOk(PayloadBare), EnrichOk(PayloadBadMag),
   EnrichOk(PayloadLow)}

TargetChannels == {<<>>, <<"C", "a", "l", "l">>, <<"s", "m", "s">>}

InitTargets ==
  /\ env \in {[DefaultEnv EXCEPT !.ALERTA_CANAL = c] : c \in TargetChannels}
  /\ kv \in {[EmptyKV EXCEPT !["alert_targets_v1"] = r] : r \in TargetRegistries}
  /\ clock = 0
  /\ tk = [p \in Procs |-> Idle]
  /\ last = NoTick
  /\ prev = NoTick
  /\ hist = <<>>
  /\ web = <<>>
  /\ pub = NoPub

NextTargets ==
  \/ StartTick("t1", MaxTargetTicks)
  \/ FeedFetch("t1", {FeedEvents(<<EvA, EvB>>)})
  \/ SeenGet("t1")
  \/ SeenPut("t1")
  \/ AlertedGet("t1")
  \/ EnrichFetch("t1", TargetEnrich)
  \/ TargetsGet("t1")
  \/ Dispatch("t1", SendOutcomes)
  \/ AlertedPut("t1")

SpecTargets == InitTargets /\ [][NextTargets]_vars

(* ------------------------------------------------------------------ *)
(* Specification: feed answers of every shape                         *)
(* ------------------------------------------------------------------ *)

\* As Spec, with one target registered before the first tick, an enrichment
\* that always answers, and feed answers of every shape steps 1 and 2
\* distinguish.

MaxFeedTicks == 2

\* {}: an element without id
EvNoId == Event(JUndef, JNum(50), JUndef, JUndef)
\* {id: ""}
EvEmptyId == Event(JStr(<<>>), JNum(50), JUndef, JUndef)
\* {id: "E"}: no magnitude field at all
EvNoMag == Event(JStr(<<"E">>), JUndef, JUndef, JUndef)
\* {id: "F", magnitude: {}}: an object without value
EvObjNoValue == Event(JStr(<<"F">>), JObjEmpty, JUndef, JUndef)

\* {data: [...]} and {results: [...]}
FeedData(xs) == [st |-> "ok", data |-> [NoData EXCEPT !.data = LArr(xs)]]
FeedResults(xs) == [st |-> "ok", data |-> [NoData EXCEPT !.results = LArr(xs)]]
\* {events: "none"}: a member that is not a list
FeedNotList == [st |-> "ok", data |-> [NoData EXCEPT !.events = LOther]]
\* {}: none of the members
FeedNoMember == [st |-> "ok", data |-> NoData]

FeedShapes ==
  {FeedThrows, FeedNotOk, FeedList(<<>>), FeedEvents(<<>>), FeedNotList,
   FeedNoMember, FeedEvents(<<EvNoId, EvA>>), FeedList(<<EvEmptyId>>),
   FeedEvents(<<EvBadMag>>), FeedData(<<EvNoMag>>), FeedResults(<<EvObjNoValue>>),
   FeedEvents(<<EvA, EvB>>), FeedData(<<EvB>>), FeedResults(<<EvLow>>)}

InitFeed ==
  /\ env = DefaultEnv
  /\ kv = [EmptyKV EXCEPT !["alert_targets_v1"] = Registry(<<T1>>)]
  /\ clock = 0
  /\ tk = [p \in Procs |-> Idle]
  /\ last = NoTick
  /\ prev = NoTick
  /\ hist = <<>>
  /\ web = <<>>
  /\ pub = NoPub

NextFeed ==
  \/ StartTick("t1", MaxFeedTicks)
  \/ FeedFetch("t1", FeedShapes)
  \/ SeenGet("t1")
  \/ SeenPut("t1")
  \/ AlertedGet("t1")
  \/ EnrichFetch("t1", {EnrichOk(PayloadFull)})
  \/ TargetsGet("t1")
  \/ Dispatch("t1", SendOutcomes)
  \/ AlertedPut("t1")

SpecFeed == InitFeed /\ [][NextFeed]_vars

(* ------------------------------------------------------------------ *)
(* Specification: a store whose calls may fail                        *)
(* ------------------------------------------------------------------ *)

\* As SpecRuns with one target registered before the first tick, and any
\* get or put of the store may reject instead of completing.  A put that
\* rejects writes nothing.

MaxStoreTicks == 2

NextStore ==
  \/ StartTick("t1", MaxStoreTicks)
  \/ FeedFetch("t1", RunFeeds)
  \/ SeenGet("t1")
  \/ SeenPut("t1")
  \/ AlertedGet("t1")
  \/ EnrichFetch("t1", RunEnrich)
  \/ TargetsGet("t1")
  \/ Dispatch("t1", SendOutcomes)
  \/ AlertedPut("t1")
  \/ StoreRejects("t1")
  \/ TargetsGetRejects("t1")

SpecStore == InitFeed /\ [][NextStore]_vars

(* ------------------------------------------------------------------ *)
(* Specification: invocations that may overlap                        *)
(* ------------------------------------------------------------------ *)

\* Nothing in the worker keeps a second invocation from starting while one
\* is running: here two invocations interleave at their awaits.  The feed
\* always shows event A, the enrichment may fail, one target is registered
\* and the store is reliable.

MaxOverlapTicks == 2

NextOverlap ==
  \E p \in Procs :
    \/ StartTick(p, MaxOverlapTicks)
    \/ FeedFetch(p, {FeedEvents(<<EvA, EvB>>)})
    \/ SeenGet(p)
    \/ SeenPut(p)
    \/ AlertedGet(p)
    \/ EnrichFetch(p, RunEnrich)
    \/ TargetsGet(p)
    \/ Dispatch(p, SendOutcomes)
    \/ AlertedPut(p)

SpecOverlap == InitFeed /\ [][NextOverlap]_vars

(* ------------------------------------------------------------------ *)
(* Specification: a pending event under a fair scheduler              *)
(* ------------------------------------------------------------------ *)

\* The cron trigger keeps firing and every awaited call settles (weak
\* fairness of the worker's steps).  The feed's latest event stays A.
\* During the first FlakyTicks ticks the feed and the enrichment may throw,
\* the registry may be absent and every send may fail; from then on the
\* feed and the enrichment answer, the registry holds targets, and when
\* targets are selected at least one send succeeds.

FlakyTicks == 1

LiveRegistries == {Registry(<<T1, T3>>), Registry(<<T4, T5>>)}

Settled == clock > FlakyTicks

LiveFeeds ==
  IF Settled THEN {FeedEvents(<<EvA, EvB>>)}
  ELSE {FeedThrows, FeedEvents(<<EvA, EvB>>)}

LiveEnrich == IF Settled THEN {EnrichOk(PayloadFull)} ELSE RunEnrich

\* the last send of a tick that has had no success yet succeeds
LiveSendOutcomes(p) ==
  IF Settled /\ tk[p].okCount = 0
       /\ NextSend(tk[p].selected, tk[p].i + 1) > Len(tk[p].selected)
  THEN {TRUE}
  ELSE BOOLEAN

LiveStep ==
  \/ /\ clock >= FlakyTicks => LoadTargets(kv["alert_targets_v1"]) # <<>>
     /\ StartTick("t1", FlakyTicks + 1)
  \/ FeedFetch("t1", LiveFeeds)
  \/ SeenGet("t1")
  \/ SeenPut("t1")
  \/ AlertedGet("t1")
  \/ EnrichFetch("t1", LiveEnrich)
  \/ TargetsGet("t1")
  \/ Dispatch("t1", LiveSendOutcomes("t1"))
  \/ AlertedPut("t1")

\* while things are flaky the registry is edited at will
LiveEdit == clock < FlakyTicks /\ SetTargets(LiveRegistries \cup {RegistryAbsent})

\* the registry is filled before the first tick of the settled phase
Provision ==
  /\ clock >= FlakyTicks
  /\ LoadTargets(kv["alert_targets_v1"]) = <<>>
  /\ SetTargets(LiveRegistries)

NextLive == LiveStep \/ LiveEdit \/ Provision

SpecLive ==
  Init /\ [][NextLive]_vars /\ WF_vars(LiveStep) /\ WF_vars(Provision)

(* ------------------------------------------------------------------ *)
(* Specification: the documented scenario and the configuration       *)
(* ------------------------------------------------------------------ *)

\* The feed shows event E1 with magnitude "5,2" (or throws), one target is
\* registered before the first tick, the enrichment answers with the
\* location Santiago and with or without a magnitude of its own (or
\* throws), and the configuration varies: the base URL of the enrichment
\* and the store binding present or missing, the global threshold 4.0 or 6.

MaxScenarioTicks == 2

\* {id: "E1", magnitude: "5,2"}
EvE1 == Event(JStr(<<"E", "1">>), JStr(<<"5", ",", "2">>), JUndef, JUndef)

\* {phone: "+560001", min_mag: 4, localidad: "", enabled: true}
TScenario ==
  RawTarget(JStr(<<"+", "5", "6", "0", "0", "0", "1">>), JNum(40), JStr(<<>>), JTrue)

Santiago == <<"S", "a", "n", "t", "i", "a", "g", "o">>

\* {event: {magnitud: 5.2, ...}, localidades: [{localidad: "Santiago", ...}]}:
\* the member "evento" is absent
PayloadSantiago == [evento |-> NoEvento, localidades |-> LArr(<<Loc(Santiago)>>)]
\* {evento: {magnitud: 5.2, ...}, localidades: [{localidad: "Santiago", ...}]}
PayloadSantiagoEvento ==
  [evento |-> [NoEvento EXCEPT !.magnitud = JNum(52)],
   localidades |-> LArr(<<Loc(Santiago)>>)]
\* {evento: {magnitud: 3}, localidades: [{localidad: "Santiago", ...}]}
PayloadSantiagoWeak ==
  [evento |-> [NoEvento EXCEPT !.magnitud = JNum(30)],
   localidades |-> LArr(<<Loc(Santiago)>>)]

ScenarioFeeds == {FeedEvents(<<EvE1>>), FeedThrows}

ScenarioEnrich ==
  {EnrichOk(PayloadSantiago), EnrichOk(PayloadSantiagoEvento),
   EnrichOk(PayloadSantiagoWeak), EnrichThrows}

ScenarioThresholds == {<<"4", ".", "0">>, <<"6">>}

ScenarioEnvs ==
  {[DefaultEnv EXCEPT !.RAILWAY_BASE_URL = b, !.YATI_KV = k,
                      !.MIN_EVENT_MAGNITUDE = m] :
     b \in BOOLEAN, k \in BOOLEAN, m \in ScenarioThresholds}

InitScenario ==
  /\ env \in ScenarioEnvs
  /\ kv = [EmptyKV EXCEPT !["alert_targets_v1"] = Registry(<<TScenario>>)]
  /\ clock = 0
  /\ tk = [p \in Procs |-> Idle]
  /\ last = NoTick
  /\ prev = NoTick
  /\ hist = <<>>
  /\ web = <<>>
  /\ pub = NoPub

NextScenario ==
  \/ StartTick("t1", MaxScenarioTicks)
  \/ FeedFetch("t1", ScenarioFeeds)
  \/ SeenGet("t1")
  \/ SeenPut("t1")
  \/ AlertedGet("t1")
  \/ EnrichFetch("t1", ScenarioEnrich)
  \/ TargetsGet("t1")
  \/ Dispatch("t1", SendOutcomes)
  \/ AlertedPut("t1")

SpecScenario == InitScenario /\ [][NextScenario]_vars

(* ------------------------------------------------------------------ *)
(* Specification: requests to /test-alert                             *)
(* ------------------------------------------------------------------ *)

\* The endpoint enabled ("1"), disabled or set to something else, the PIN
\* secret and the default recipient set or not, the registry absent or
\* holding targets that are enabled, not enabled and without phone; requests
\* with the right PIN, a wrong one or none, with and without `to`.  The
\* manual alerts run while further requests arrive.

MaxRequests == 2

WebEnvs ==
  {[DefaultEnv EXCEPT !.ENABLE_TEST_ALERT = e, !.TEST_ALERT_PIN = s,
                      !.TEST_ALERT_TO = d] :
     e \in {<<>>, <<"1">>, <<"0">>}, s \in {<<>>, <<"7">>}, d \in {<<>>, <<"+", "9">>}}

WebPins == {<<>>, <<"7">>, <<"8">>}
WebTos == {<<>>, <<" ", "+", "1">>}
WebRegistries == {RegistryAbsent, Registry(<<T1, T4, T7>>)}

InitWeb ==
  /\ env \in WebEnvs
  /\ kv \in {[EmptyKV EXCEPT !["alert_targets_v1"] = r] : r \in WebRegistries}
  /\ clock = 0
  /\ tk = [p \in Procs |-> Idle]
  /\ last = NoTick
  /\ prev = NoTick
  /\ hist = <<>>
  /\ web = <<>>
  /\ pub = NoPub

NextWeb ==
  \/ TestAlert(WebPins, WebTos, MaxRequests)
  \/ \E r \in 1..MaxRequests : ManualLoad(r)
  \/ \E r \in 1..MaxRequests : ManualSend(r, SendOutcomes)

SpecWeb == InitWeb /\ [][NextWeb]_vars

(* ------------------------------------------------------------------ *)
(* Specification: registry values of every shape                      *)
(* ------------------------------------------------------------------ *)

\* As SpecTargets with the default channel, over two ticks between which
\* the registry is edited.  The value stored under alert_targets_v1 is
\* missing, the empty text, text that JSON.parse rejects, a document that
\* is not an array, the empty array, or an array of records some of which
\* lack min_mag or enabled.  The enrichment may also throw.

MaxRegistryTicks == 2

\* "": the key holds the empty text
RegistryBlank == <<[t |-> "blank", items |-> <<>>]>>
\* "{not json": JSON.parse throws
RegistryUnparsable == <<[t |-> "invalid", items |-> <<>>]>>
\* {"targets": []}: a document that is not an array
RegistryNotArray == <<[t |-> "obj", items |-> <<>>]>>

\* {phone: "+9", localidad: "arica", enabled: true}: no min_mag
T9 == RawTarget(JStr(<<"+", "9">>), JUndef, JStr(<<"a", "r", "i", "c", "a">>), JTrue)
\* {phone: "+0", min_mag: 4, localidad: "Stgo"}: no enabled
T10 == RawTarget(JStr(<<"+", "0">>), JNum(40), JStr(<<"S", "t", "g", "o">>), JUndef)

RegistryShapes ==
  {RegistryAbsent, RegistryBlank, RegistryUnparsable, RegistryNotArray,
   Registry(<<>>), Registry(<<T3, T4>>), Registry(<<T9, T10, T5>>)}

RegistryEnrich == TargetEnrich \cup {EnrichThrows}

InitRegistry ==
  /\ env = DefaultEnv
  /\ kv \in {[EmptyKV EXCEPT !["alert_targets_v1"] = r] : r \in RegistryShapes}
  /\ clock = 0
  /\ tk = [p \in Procs |-> Idle]
  /\ last = NoTick
  /\ prev = NoTick
  /\ hist = <<>>
  /\ web = <<>>
  /\ pub = NoPub

NextRegistry ==
  \/ StartTick("t1", MaxRegistryTicks)
  \/ FeedFetch("t1", {FeedEvents(<<EvA, EvB>>)})
  \/ SeenGet("t1")
  \/ SeenPut("t1")
  \/ AlertedGet("t1")
  \/ EnrichFetch("t1", RegistryEnrich)
  \/ TargetsGet("t1")
  \/ Dispatch("t1", SendOutcomes)
  \/ AlertedPut("t1")
  \/ SetTargets(RegistryShapes)

SpecRegistry == InitRegistry /\ [][NextRegistry]_vars

(* ------------------------------------------------------------------ *)
(* Specification: ticks started again from the same store             *)
(* ------------------------------------------------------------------ *)

\* As SpecRuns, with a feed that may also throw or show an event below the
\* threshold, and between ticks the store may be put back to what it held
\* before the last tick, so that two consecutive ticks start from the same
\* contents after different histories.

MaxReplayTicks == 2

ReplayFeeds == RunFeeds \cup {FeedList(<<EvALow>>), FeedThrows}

NextReplay ==
  \/ StartTick("t1", MaxReplayTicks)
  \/ FeedFetch("t1", ReplayFeeds)
  \/ SeenGet("t1")
  \/ SeenPut("t1")
  \/ AlertedGet("t1")
  \/ EnrichFetch("t1", RunEnrich)
  \/ TargetsGet("t1")
  \/ Dispatch("t1", SendOutcomes)
  \/ AlertedPut("t1")
  \/ SetTargets(RunRegistries)
  \/ Restore

SpecReplay == Init /\ [][NextReplay]_vars

(* ------------------------------------------------------------------ *)
(* Specification: manual test alerts next to the cron ticks           *)
(* ------------------------------------------------------------------ *)

\* The endpoint is enabled and requests carry the right PIN, with and
\* without `to`.  The store is empty or holds what a tick that alerted on
\* event A left; ticks over a feed showing A or B run while the manual
\* alerts are sent.

MaxMixedTicks == 1
MaxMixedRequests == 1

MixedEnv == [DefaultEnv EXCEPT !.ENABLE_TEST_ALERT = <<"1">>, !.TEST_ALERT_PIN = <<"7">>]

RECURSIVE SeenPuts(_, _)
SeenPuts(store, w) ==
  IF w > 3 THEN store
  ELSE SeenPuts(MarkSeenPut(store, w, <<"A">>, Num(52), 0), w + 1)

RECURSIVE AlertedPuts(_, _)
AlertedPuts(store, w) ==
  IF w > 4 THEN store
  ELSE AlertedPuts(MarkAlertedPut(store, w, <<"A">>, Num(52), <<>>, 0), w + 1)

\* the store after markSeen and markAlerted of event A
AlertedOnA(store) == AlertedPuts(SeenPuts(store, 1), 1)

MixedStores ==
  LET s0 == [EmptyKV EXCEPT !["alert_targets_v1"] = Registry(<<T1, T4, T7>>)]
  IN {s0, AlertedOnA(s0)}

InitMixed ==
  /\ env = MixedEnv
  /\ kv \in MixedStores
  /\ clock = 0
  /\ tk = [p \in Procs |-> Idle]
  /\ last = NoTick
  /\ prev = NoTick
  /\ hist = <<>>
  /\ web = <<>>
  /\ pub = NoPub

NextMixed ==
  \/ StartTick("t1", MaxMixedTicks)
  \/ FeedFetch("t1", RunFeeds)
  \/ SeenGet("t1")
  \/ SeenPut("t1")
  \/ AlertedGet("t1")
  \/ EnrichFetch("t1", RunEnrich)
  \/ TargetsGet("t1")
  \/ Dispatch("t1", SendOutcomes)
  \/ AlertedPut("t1")
  \/ TestAlert({<<"7">>}, WebTos, MaxMixedRequests)
  \/ \E r \in 1..MaxMixedRequests : ManualLoad(r)
  \/ \E r \in 1..MaxMixedRequests : ManualSend(r, SendOutcomes)

SpecMixed == InitMixed /\ [][NextMixed]_vars

(* ------------------------------------------------------------------ *)
(* Specification: requests to /public                                 *)
(* ------------------------------------------------------------------ *)

\* The store holds no snapshot, a short one with a timestamp that cannot
\* be parsed, or a full one without timestamp or with that of minute 0.
\* The configuration is the default one or sets the refresh interval, turns
\* the self-healing off or lacks the build token or the store; the
\* origin's build and page answer as they please.  Requests arrive while refreshes run and
\* minutes pass.

MaxHits == 2
MaxMinutes == 3

\* the minute of the first request; the stored timestamp is then two
\* minutes old
StartMinute == 2

PublicEnvs ==
  {[DefaultEnv EXCEPT !.RAILWAY_BUILD_PUBLIC_TOKEN = <<"k">>]}
  \cup {[DefaultEnv EXCEPT !.RAILWAY_BUILD_PUBLIC_TOKEN = <<"k">>,
                          !.PUBLIC_REFRESH_MINUTES = <<"1">>]}
  \cup {[DefaultEnv EXCEPT !.RAILWAY_BUILD_PUBLIC_TOKEN = <<"k">>,
                          !.PUBLIC_REFRESH_FORCE_ON_EMPTY = <<"0">>,
                          !.PUBLIC_REFRESH_MINUTES = <<"1">>],
        [DefaultEnv EXCEPT !.PUBLIC_REFRESH_MINUTES = <<"1">>],
        [DefaultEnv EXCEPT !.YATI_KV = FALSE]}

\* the two public keys as the requests find them at first
StoredCaches ==
  {<< <<>>, <<>> >>,
   << <<Page(150, 1)>>, <<<<"?">>>> >>,
   << <<Page(250, 0)>>, <<>> >>,
   << <<Page(250, 0)>>, <<ToISOString(0)>> >>}

BuildResponses == {"throws", "notOk", "ok"}
PageResponses ==
  {[status |-> "throws", html |-> Page(0, 0)],
   [status |-> "notOk", html |-> Page(300, 2)],
   [status |-> "ok", html |-> Page(0, 0)],
   [status |-> "ok", html |-> Page(190, 1)],
   [status |-> "ok", html |-> Page(300, 2)]}

InitPublic ==
  /\ env \in PublicEnvs
  /\ kv \in {[EmptyKV EXCEPT !["public_html_v1"] = c[1], !["public_html_last_at"] = c[2]] :
               c \in StoredCaches}
  /\ clock = 0
  /\ tk = [p \in Procs |-> Idle]
  /\ last = NoTick
  /\ prev = NoTick
  /\ hist = <<>>
  /\ web = <<>>
  /\ pub = [NoPub EXCEPT !.now = StartMinute]

NextPublic ==
  \/ PublicGet(MaxHits)
  \/ \E h \in 1..MaxHits : PublicRespond(h)
  \/ \E h \in 1..MaxHits : RefreshStart(h)
  \/ \E h \in 1..MaxHits : RefreshBuild(h, BuildResponses)
  \/ \E h \in 1..MaxHits : RefreshFetch(h, PageResponses)
  \/ \E h \in 1..MaxHits : RefreshPutHtml(h)
  \/ \E h \in 1..MaxHits : RefreshPutAt(h)
  \/ MinutePasses(MaxMinutes)

SpecPublic == InitPublic /\ [][NextPublic]_vars

(* ------------------------------------------------------------------ *)
(* Vocabulary of the properties                                       *)
(* ------------------------------------------------------------------ *)

\* the alerted keys hold after the tick what they held before it
AlertedUnchanged(s) == \A k \in AlertedKeys : s.kv1[k] = s.kv0[k]

\* the tick's feed gave a latest event with an id and a finite magnitude
FeedValid(s) == s.id # <<>> /\ ~s.M.nan

\* the feed magnitude of the tick's event is at least the global threshold
ClearsThreshold(s) ==
  FeedValid(s) /\ ~MinEventMagnitude(env).nan /\ s.M.v >= MinEventMagnitude(env).v

SomeSendOk(s) == \E i \in 1..Len(s.sent) : s.sent[i].ok
AllSendsFailed(s) == \A i \in 1..Len(s.sent) : ~s.sent[i].ok
SentTo(s) == [i \in 1..Len(s.sent) |-> s.sent[i].to]

\* the tick read the registry and loadTargets gave the empty list
RegistryEmpty(s) == s.nReg = 1 /\ LoadTargets(s.reg) = <<>>

\* the tick read a non-empty registry and the filter selected nobody
NoneSelected(s) == s.nReg = 1 /\ LoadTargets(s.reg) # <<>> /\ s.selected = <<>>

WithPhone(sel) == {i \in 1..Len(sel) : PhoneOf(sel[i]) # <<>>}

\* outcomes of ticks that ran a notification pass (fetched the enrichment)
PassOutcomes == {"enrichError", "noTargets", "noneSelected", "sent", "nothingSent"}

\* outcomes of ticks that committed the alerted watermark
CommitOutcomes == {"sent", "noneSelected"}

FirstOfRun(i) == i = 1 \/ hist[i].id # hist[i - 1].id

(* ------------------------------------------------------------------ *)
(* Properties                                                         *)
(* ------------------------------------------------------------------ *)

\* C1 (idempotence): a tick that starts with last_alerted_event_id equal to
\* the id of the feed's latest event fetches no enrichment, dispatches
\* nothing and does not write the alerted watermark.
C1_Idempotence ==
  (last.id # <<>> /\ last.kv0["last_alerted_event_id"] = <<last.id>>)
    => /\ last.sent = <<>>
       /\ last.nEnrich = 0
       /\ last.nMark = 0
       /\ AlertedUnchanged(last)

\* two consecutive ticks got the same feed response, the first alerted the
\* event and the second found it alerted
C1_Witness ==
  /\ prev.outcome = "sent"
  /\ last.feed = prev.feed
  /\ last.kv0["last_alerted_event_id"] = <<last.id>>
  /\ last.outcome = "alreadyAlerted"

\* C2 as claimed: once a tick has committed the alerted watermark for an id,
\* no later tick runs a notification pass (enrichment fetch or dispatch) for
\* that id, whatever the feed shows in between.
C2_NeverReprocessed ==
  \A i, j \in 1..Len(hist) :
    (i < j /\ hist[i].outcome \in CommitOutcomes /\ hist[j].id = hist[i].id)
      => hist[j].outcome \notin PassOutcomes

\* C3 (monotonic dedup): when every tick sees an event that clears the
\* threshold, the ids form contiguous runs and the first tick of each run
\* gets the enrichment and at least one successful dispatch, the number of
\* dispatch passes equals the number of distinct ids.
C3_MonotonicDedup ==
  ( /\ \A i \in 1..Len(hist) :
         hist[i].id # <<>> /\ hist[i].outcome \in PassOutcomes \cup {"alreadyAlerted"}
    /\ \A i \in 1..Len(hist) : FirstOfRun(i) => hist[i].outcome = "sent"
    /\ \A i, j \in 1..Len(hist) :
         (i < j /\ FirstOfRun(i) /\ FirstOfRun(j)) => hist[i].id # hist[j].id )
    => Cardinality({i \in 1..Len(hist) : hist[i].outcome \in {"sent", "nothingSent"}})
         = Cardinality({hist[i].id : i \in 1..Len(hist)})

\* the ids A, A, B, B with two dispatch passes
C3_Witness ==
  /\ Len(hist) = 4
  /\ hist[1].id = <<"A">> /\ hist[2].id = <<"A">>
  /\ hist[3].id = <<"B">> /\ hist[4].id = <<"B">>
  /\ hist[1].outcome = "sent" /\ hist[3].outcome = "sent"
  /\ Cardinality({i \in 1..4 : hist[i].outcome \in {"sent", "nothingSent"}}) = 2

\* C4 (total failure does not commit): a tick whose filter selected targets
\* and whose every dispatch attempt failed leaves the alerted keys as they
\* were; the next tick, given the same feed, enrichment and registry
\* responses, selects the same targets and attempts the same dispatches.
C4_TotalFailure ==
  /\ (last.selected # <<>> /\ AllSendsFailed(last))
       => (AlertedUnchanged(last) /\ last.nMark = 0)
  /\ ( /\ prev.selected # <<>> /\ AllSendsFailed(prev)
       /\ last.outcome # "none"
       /\ last.feed = prev.feed
       /\ (last.nEnrich = 0 \/ last.enr = prev.enr)
       /\ (last.nReg = 0 \/ last.reg = prev.reg) )
       => (last.selected = prev.selected /\ SentTo(last) = SentTo(prev))

\* every dispatch of a tick failed and the next tick tried the same targets
C4_Witness ==
  /\ prev.sent # <<>> /\ AllSendsFailed(prev)
  /\ last.feed = prev.feed /\ last.enr = prev.enr /\ last.reg = prev.reg
  /\ last.sent # <<>> /\ SentTo(last) = SentTo(prev)

\* C5 (partial success commits): a tick in which at least one dispatch
\* succeeded ends with last_alerted_event_id equal to the feed id of the
\* event, and its success count is the number of dispatches that succeeded.
C5_PartialSuccess ==
  SomeSendOk(last)
    => /\ last.kv1["last_alerted_event_id"] = <<last.id>>
       /\ last.id = LatestIdOf(EventsOf(last.feed.data).items[1])
       /\ last.okCount = Cardinality({i \in 1..Len(last.sent) : last.sent[i].ok})

\* three targets, one dispatch succeeded and two failed, watermark committed
C5_Witness ==
  /\ Len(last.sent) = 3
  /\ last.okCount = 1
  /\ Cardinality({i \in 1..3 : ~last.sent[i].ok}) = 2
  /\ last.kv1["last_alerted_event_id"] = <<last.id>>
  /\ last.kv0["last_alerted_event_id"] # <<last.id>>

\* C6 (the magnitude gate does not commit): a tick whose latest event has a
\* feed magnitude below the global minimum fetches no enrichment, dispatches
\* nothing and leaves every alerted key as it was.
C6_GateNonCommitting ==
  (FeedValid(last) /\ NumLt(last.M, MinEventMagnitude(env)))
    => /\ last.nEnrich = 0
       /\ last.sent = <<>>
       /\ last.nMark = 0
       /\ AlertedUnchanged(last)

\* an event below the threshold arrived while another event was recorded as
\* alerted
C6_Witness ==
  /\ last.outcome = "belowThreshold"
  /\ last.kv0["last_alerted_event_id"] # <<>>
  /\ last.kv1["last_alerted_event_id"] = last.kv0["last_alerted_event_id"]

\* C7 as claimed: a tick whose enrichment fetch throws or is not OK ends with
\* no dispatch and no state mutation, and the next tick that sees the same
\* latest id fetches the enrichment again.
C7_NoMutation ==
  /\ (last.enr.st \in {"throw", "notok"})
       => (last.sent = <<>> /\ last.kv1 = last.kv0)
  /\ (prev.enr.st \in {"throw", "notok"} /\ last.id = prev.id)
       => last.nEnrich = 1

\* C7 amended: a tick whose enrichment fetch throws or is not OK ends with no
\* dispatch and with every key but the seen watermark (written earlier in
\* the tick) unchanged, and the next tick that sees the same latest id with
\* a feed magnitude that still clears the threshold fetches the enrichment
\* again.
C7_EnrichFailure ==
  /\ (last.enr.st \in {"throw", "notok"})
       => /\ last.sent = <<>>
          /\ last.nMark = 0
          /\ \A k \in Keys \ SeenKeys : last.kv1[k] = last.kv0[k]
  /\ (prev.enr.st \in {"throw", "notok"} /\ last.id = prev.id /\ ClearsThreshold(last))
       => last.nEnrich = 1

\* the enrichment failed in one tick and was fetched again in the next
C7_Witness ==
  /\ prev.enr.st = "throw"
  /\ last.id = prev.id
  /\ last.nEnrich = 1
  /\ last.enr.st = "ok"

C9_NoneSelectedCommits ==
  /\ NoneSelected(last)
       => (last.sent = <<>> /\ last.kv1["last_alerted_event_id"] = <<last.id>>)
  /\ (NoneSelected(prev) /\ last.id = prev.id)
       => (last.nEnrich = 0 /\ last.sent = <<>> /\ last.kv1 = last.kv0)
  /\ \A i, j \in 1..Len(hist) :
       ( /\ i < j
         /\ hist[i].outcome = "noneSelected"
         /\ \A k \in i..j : hist[k].id \in {hist[i].id, <<>>}
         /\ hist[j].id = hist[i].id )
         => hist[j].outcome = "alreadyAlerted"

\* nobody was selected, the registry was then changed so that a target
\* matches, and the next tick did nothing
C9_Witness ==
  /\ NoneSelected(prev)
  /\ last.id = prev.id
  /\ last.outcome = "alreadyAlerted"
  /\ SelectTargets(LoadTargets(last.kv0["alert_targets_v1"]), prev.mag,
                   LocNamesOf(LocsOf(prev.enr.payload))) # <<>>

\* C10: a tick writes the alerted watermark only if one of its dispatches
\* succeeded or its filter selected nobody from a non-empty registry; every
\* other tick leaves the alerted keys as they were.
C10_CommitOnlyWhenSettled ==
  (last.nMark > 0 \/ ~AlertedUnchanged(last))
    => (SomeSendOk(last) \/ NoneSelected(last))

\* a tick committed after one dispatch succeeded and another failed
C10_Witness ==
  /\ ~AlertedUnchanged(last)
  /\ SomeSendOk(last)
  /\ \E i \in 1..Len(last.sent) : ~last.sent[i].ok

\* a >= b on numbers: false when either is not a number
NumGe(a, b) == ~a.nan /\ ~b.nan /\ a.v >= b.v

\* a target's location, blanks at either end dropped
LocationOf(t) == Trim(ToStr(t.localidad))

\* the location names of an enrichment response
LocationNames(payload) ==
  {ToStr(OrEmpty(LocsOf(payload)[i].localidad)) : i \in 1..Len(LocsOf(payload))}

\* the location matches one of the names, case aside
MatchesLocation(t, payload) ==
  \E n \in LocationNames(payload) : ToLower(n) = ToLower(LocationOf(t))

\* the filter as the claims state it
StatedFilter(t, mag, payload) ==
  /\ t.enabled
  /\ NumGe(mag, ToNumber(t.min_mag))
  /\ (LocationOf(t) = <<>> \/ MatchesLocation(t, payload))

\* the tick read a non-empty registry and ran the filter
Filtered(s) == s.nReg = 1 /\ LoadTargets(s.reg) # <<>>

\* C11 as claimed: the targets a tick selects are exactly the registry's
\* targets that are enabled, whose minimum magnitude the effective magnitude
\* reaches (>=) and whose location is empty or equals, case aside, one of
\* the enrichment's location names; also when the enrichment's magnitude or
\* the target's min_mag is not numeric.
C11_FilterIff ==
  Filtered(last)
    => last.selected =
         SelectSeq(LoadTargets(last.reg),
                   LAMBDA t : StatedFilter(t, last.mag, last.enr.payload))

\* C12 as claimed: every target of the registry with an empty location whose
\* minimum magnitude the event reaches is selected, whatever the
\* enrichment's locations are.
C12_WildcardAny ==
  Filtered(last)
    => \A i \in 1..Len(LoadTargets(last.reg)) :
         LET t == LoadTargets(last.reg)[i]
         IN (LocationOf(t) = <<>> /\ NumGe(last.mag, ToNumber(t.min_mag)))
              => \E j \in 1..Len(last.selected) : last.selected[j] = t

\* C12 amended: every enabled target of the registry with an empty location
\* whose minimum magnitude the event reaches is selected, whatever the
\* enrichment's locations are (the empty list included).
C12_Wildcard ==
  Filtered(last)
    => \A i \in 1..Len(LoadTargets(last.reg)) :
         LET t == LoadTargets(last.reg)[i]
         IN (t.enabled /\ LocationOf(t) = <<>>
               /\ NumGe(last.mag, ToNumber(t.min_mag)))
              => \E j \in 1..Len(last.selected) : last.selected[j] = t

\* the enrichment listed no location and a target without location, whose
\* minimum the event reaches, was selected and sent to
C12_Witness ==
  /\ Filtered(last)
  /\ LocsOf(last.enr.payload) = <<>>
  /\ \E j \in 1..Len(last.selected) :
       /\ LocationOf(last.selected[j]) = <<>>
       /\ NumGe(last.mag, ToNumber(last.selected[j].min_mag))
  /\ last.sent # <<>>

\* what steps 1 and 2 make of the tick's feed answer
FeedFailed(s) == s.feed.st \in {"throw", "notok"}
FeedNoList(s) == s.feed.st = "ok" /\ NoEvents(EventsOf(s.feed.data))
FeedFirst(s) == EventsOf(s.feed.data).items[1]
FeedEmptyId(s) ==
  s.feed.st = "ok" /\ ~NoEvents(EventsOf(s.feed.data))
    /\ LatestIdOf(FeedFirst(s)) = <<>>
FeedBadMagnitude(s) ==
  s.feed.st = "ok" /\ ~NoEvents(EventsOf(s.feed.data))
    /\ FeedMagnitude(FeedFirst(s)).nan

\* C13 (aborts on the feed mutate nothing): a tick whose feed fetch throws
\* or is not OK, whose event list is empty or not a list, or whose first
\* element has an empty id or a magnitude that is not a finite number, ends
\* with every key of the store as it was, with no enrichment fetch, no read
\* of the registry and no dispatch.
C13_FeedAborts ==
  (last.outcome # "none"
     /\ (FeedFailed(last) \/ FeedNoList(last) \/ FeedEmptyId(last)
           \/ FeedBadMagnitude(last)))
    => /\ last.kv1 = last.kv0
       /\ last.nEnrich = 0
       /\ last.nReg = 0
       /\ last.nMark = 0
       /\ last.sent = <<>>

\* a tick alerted an event; the next one got a first element whose magnitude
\* does not parse and left the seen and alerted keys as they were
C13_Witness ==
  /\ prev.outcome = "sent"
  /\ FeedBadMagnitude(last)
  /\ last.kv0["last_alerted_event_id"] = <<prev.id>>
  /\ last.kv0["last_seen_event_id"] = <<prev.id>>
  /\ last.kv1 = last.kv0

\* the positions of an invocation from the dedup check on
PastSeen == {"alertedGet", "enrich", "targets", "dispatch", "markAlerted"}

\* C14 (seen watermark): a tick whose latest event passes validation holds
\* last_seen_event_id equal to that event's id from the dedup check on and
\* when it ends, however it ends; when the stored id differed at the start,
\* last_seen_mag and last_seen_at are the event's feed magnitude and the
\* tick's time, written before the dedup check and the magnitude gate.
C14_SeenWatermark ==
  /\ tk["t1"].pc \in PastSeen
       => /\ kv["last_seen_event_id"] = <<tk["t1"].latestId>>
          /\ tk["t1"].kv0["last_seen_event_id"] # <<tk["t1"].latestId>>
               => /\ kv["last_seen_mag"] = <<tk["t1"].M>>
                  /\ kv["last_seen_at"] = <<clock>>
  /\ (last.outcome # "none" /\ FeedValid(last))
       => /\ last.kv1["last_seen_event_id"] = <<last.id>>
          /\ last.kv0["last_seen_event_id"] # <<last.id>>
               => /\ last.kv1["last_seen_mag"] = <<last.M>>
                  /\ last.kv1["last_seen_at"] = <<last.h0 + 1>>

\* after an event was alerted, another one below the threshold arrived: it
\* is recorded as seen and the alerted keys stay
C14_Witness ==
  /\ prev.outcome = "sent"
  /\ last.outcome = "belowThreshold"
  /\ last.kv0["last_seen_event_id"] = <<prev.id>>
  /\ last.id # prev.id
  /\ last.kv1["last_seen_event_id"] = <<last.id>>
  /\ last.kv1["last_seen_mag"] = <<last.M>>
  /\ last.kv1["last_alerted_event_id"] = <<prev.id>>

\* the id of the first element of the tick's feed answer
FeedId(s) == LatestIdOf(FeedFirst(s))

\* the id the enrichment answer supplies: the first of id, event_id,
\* evento_id and ID that is present, as a string; <<>> when there is none
SuppliedId(evento) ==
  LET ids == <<evento.id, evento.event_id, evento.evento_id, evento.ID>>
      present == {i \in 1..4 : ids[i].t # "undef"}
  IN IF present = {} THEN <<>>
     ELSE ToStr(ids[CHOOSE i \in present : \A j \in present : i <= j])

ReachedDispatch(s) == s.outcome \in {"sent", "nothingSent"}

\* the channel the configuration selects: call, or sms (the default)
ConfiguredChannel ==
  IF ToLower(env.ALERTA_CANAL) = <<"c", "a", "l", "l">> THEN "call" ELSE "sms"

\* C16 as claimed: a tick that reaches the dispatch loop makes exactly one
\* attempt per selected target, in order, on the configured channel, whether
\* or not earlier attempts failed.
C16_OnePerSelected ==
  ReachedDispatch(last)
    => /\ Len(last.sent) = Len(last.selected)
       /\ \A i \in 1..Len(last.sent) :
            /\ last.sent[i].to = PhoneOf(last.selected[i])
            /\ last.sent[i].via = ConfiguredChannel

\* C16 amended: a tick that reaches the dispatch loop makes exactly one
\* attempt, on the configured channel, per selected target that has a phone
\* number, in order, whether or not earlier attempts failed; a selected
\* target whose phone is empty gets no attempt.
C16_OnePerPhone ==
  ReachedDispatch(last)
    => LET withPhone == SelectSeq(last.selected, LAMBDA t : PhoneOf(t) # <<>>)
       IN /\ Len(last.sent) = Len(withPhone)
          /\ \A i \in 1..Len(last.sent) :
               /\ last.sent[i].to = PhoneOf(withPhone[i])
               /\ last.sent[i].via = ConfiguredChannel

\* two targets were selected, the first attempt failed and the second was
\* still made, as a call
C16_Witness ==
  /\ ReachedDispatch(last)
  /\ Len(last.selected) = 2
  /\ Len(last.sent) = 2
  /\ ~last.sent[1].ok
  /\ last.sent[2].ok
  /\ last.sent[2].via = "call"

\* C17 as claimed: no invocation of checkForNewEvent rejects, whatever the
\* feed, the store's gets and puts, the enrichment, the registry read and
\* the sends do; every failure ends the tick by a return.
C17_FailSoft ==
  \A i \in 1..Len(hist) : hist[i].outcome # "rejected"

\* what a running invocation has done so far, as a tick record
Running(p) == [id |-> tk[p].latestId, sent |-> tk[p].sent, h0 |-> tk[p].h0]

\* both ticks delivered the same event to the same phone
DoubleDispatch(a, b) ==
  /\ a.id # <<>>
  /\ a.id = b.id
  /\ \E i \in 1..Len(a.sent), j \in 1..Len(b.sent) :
       a.sent[i].ok /\ b.sent[j].ok /\ a.sent[i].to = b.sent[j].to

C20_OnlyWatermarkWrites ==
  [][\A k \in Keys :
       kv'[k] # kv[k]
         => \/ k = "alert_targets_v1" /\ tk["t1"].pc = "idle"
            \/ /\ k \in SeenKeys \cup AlertedKeys
               /\ tk["t1"].pc \in {"markSeen", "markAlerted"}
               /\ kv[k] = tk["t1"].kv0[k]]_vars

\* a tick wrote the three seen keys and the four alerted keys, over those
\* of an earlier event, and left the registry as it was
C20_Witness ==
  /\ last.outcome = "sent"
  /\ prev.outcome = "sent"
  /\ \A k \in SeenKeys \cup AlertedKeys :
       last.kv0[k] # <<>> /\ last.kv1[k] # last.kv0[k]
  /\ last.kv1["alert_targets_v1"] = last.kv0["alert_targets_v1"]

\* the tick was given the documented scenario: the feed {events: [E1]}, the
\* threshold 4.0, nothing in the watermark keys, the one target, the
\* enrichment (if fetched) as documented, and every send (if any) succeeded
ScenarioGiven(s) ==
  /\ s.feed = FeedEvents(<<EvE1>>)
  /\ env.MIN_EVENT_MAGNITUDE = <<"4", ".", "0">>
  /\ \A k \in SeenKeys \cup AlertedKeys : s.kv0[k] = <<>>
  /\ s.kv0["alert_targets_v1"] = Registry(<<TScenario>>)
  /\ s.nEnrich > 0 =>
       s.enr \in {EnrichOk(PayloadSantiago), EnrichOk(PayloadSantiagoEvento)}
  /\ \A i \in 1..Len(s.sent) : s.sent[i].ok

\* C21 (the documented scenario): given the feed {events: [{id: "E1",
\* magnitude: "5,2"}]}, the threshold 4.0, the documented enrichment answer
\* with the location Santiago, empty watermark keys and the one target
\* +560001 whose send succeeds, the tick makes exactly one dispatch, to
\* +560001, and ends with last_alerted_event_id = "E1".
C21_Scenario ==
  ScenarioGiven(last)
    => /\ Len(last.sent) = 1
       /\ last.sent[1].to = <<"+", "5", "6", "0", "0", "0", "1">>
       /\ last.sent[1].ok
       /\ last.kv1["last_alerted_event_id"] = <<<<"E", "1">>>>

\* the scenario ran to its end with the enrichment answer as documented
C21_Witness ==
  /\ ScenarioGiven(last)
  /\ last.enr = EnrichOk(PayloadSantiago)
  /\ last.M = Num(52)
  /\ last.outcome = "sent"

\* the request carried the configured PIN
PinAccepted(q) == env.TEST_ALERT_PIN # <<>> /\ q.pin = env.TEST_ALERT_PIN

\* no send of the manual alert was started
NothingStarted(job) == job.pc = "none" /\ job.queue = <<>> /\ job.sent = <<>>

\* C22 (/test-alert): the response is 404 whenever ENABLE_TEST_ALERT is not
\* "1", whatever the PIN; 401 when it is "1" and the PIN of the request is
\* missing or wrong or no PIN secret is configured; otherwise the
\* acknowledgment (200), already given while the manual alert it started is
\* running and whether its sends succeed or fail.  On the 404 and 401 paths
\* no manual alert is started.
C22_TestAlert ==
  \A r \in 1..Len(web) :
    /\ env.ENABLE_TEST_ALERT # <<"1">>
         => (web[r].status = 404 /\ NothingStarted(web[r].job))
    /\ (env.ENABLE_TEST_ALERT = <<"1">> /\ ~PinAccepted(web[r]))
         => (web[r].status = 401 /\ NothingStarted(web[r].job))
    /\ (env.ENABLE_TEST_ALERT = <<"1">> /\ PinAccepted(web[r]))
         => (web[r].status = 200 /\ web[r].job.pc \in {"load", "send", "done", "rejected"})

\* a request without PIN was refused, and a request with the PIN was
\* acknowledged although its send then failed
C22_Witness ==
  /\ Len(web) = 2
  /\ web[1].pin = <<>> /\ web[1].status = 401
  /\ web[2].status = 200
  /\ web[2].job.pc = "rejected"
  /\ web[2].job.sent # <<>>

\* the tick read a registry value that is missing, empty, unparsable or
\* not an array
RegistryMalformed(s) == s.nReg = 1 /\ (s.reg = <<>> \/ s.reg[1].t # "arr")

\* the records of the registry value the tick read
RawItems(s) == IF s.reg # <<>> /\ s.reg[1].t = "arr" THEN s.reg[1].items ELSE <<>>

\* the filter's verdict on one record of the registry
Selects(raw, s) ==
  TargetSelected(LoadTargets(Registry(<<raw>>))[1], s.mag,
                 LocNamesOf(LocsOf(s.enr.payload)))

IsSelected(raw, s) ==
  \E i \in 1..Len(s.selected) : s.selected[i] = LoadTargets(Registry(<<raw>>))[1]

\* C23 (malformed registry): a tick that reads a registry value that is
\* missing, unparsable or not an array ends as with the empty array: no
\* dispatch, the alerted keys as they were; the next tick that sees the
\* same event, still clearing the threshold, fetches the enrichment again
\* and on success reads the registry again.  A record without min_mag is
\* filtered as the same record with min_mag 0, and a record without
\* enabled is never selected.
C23_MalformedRegistry ==
  /\ RegistryMalformed(last)
       => /\ last.outcome = "noTargets"
          /\ last.sent = <<>>
          /\ last.nMark = 0
          /\ AlertedUnchanged(last)
  /\ (last.nReg = 1 /\ last.reg = Registry(<<>>)) => last.outcome = "noTargets"
  /\ (RegistryMalformed(prev) /\ last.id = prev.id /\ ClearsThreshold(last))
       => /\ last.nEnrich = 1
          /\ last.enr.st = "ok" => last.nReg = 1
  /\ \A i \in 1..Len(RawItems(last)) :
       LET raw == RawItems(last)[i]
       IN /\ raw.min_mag.t = "undef"
               => (IsSelected(raw, last)
                     <=> Selects([raw EXCEPT !.min_mag = JNum(0)], last))
          /\ raw.enabled.t = "undef" => ~IsSelected(raw, last)

\* the registry was unparsable in one tick; it was then replaced and the
\* next tick selected a record without min_mag and left out one without
\* enabled
C23_Witness ==
  /\ RegistryMalformed(prev) /\ prev.reg = RegistryUnparsable
  /\ last.id = prev.id
  /\ last.reg = Registry(<<T9, T10, T5>>)
  /\ IsSelected(T9, last)
  /\ ~IsSelected(T10, last)
  /\ last.sent # <<>>

\* the base URL of the enrichment or the store binding is missing
ConfigMissing == ~env.RAILWAY_BASE_URL \/ ~env.YATI_KV

\* C24 (configuration errors): when env.RAILWAY_BASE_URL or env.YATI_KV is
\* missing, an invocation returns at once: it never waits on the feed, the
\* enrichment, the registry or the carrier, and the store stays as it was.
C24_ConfigFirst ==
  ConfigMissing
    => /\ \A p \in Procs : tk[p].pc = "idle"
       /\ last.outcome # "none"
            => /\ last.outcome \in {"noBaseUrl", "noKV"}
               /\ last.feed = NoResponse
               /\ last.nEnrich = 0 /\ last.nReg = 0 /\ last.sent = <<>>
               /\ last.nMark = 0
               /\ last.kv1 = last.kv0
       /\ \A k \in SeenKeys \cup AlertedKeys : kv[k] = <<>>

\* two ticks returned because the store binding is missing, the base URL
\* being set
C24_Witness ==
  /\ env.RAILWAY_BASE_URL /\ ~env.YATI_KV
  /\ prev.outcome = "noKV"
  /\ last.outcome = "noKV"
  /\ Len(hist) = 2

\* the keys that hold the time of a write
TimeKeys == {"last_seen_at", "last_alerted_at"}

SameStore(a, b) == \A k \in Keys \ TimeKeys : a[k] = b[k]

\* two finished ticks started from the same store and registry and were
\* given the same answers by the feed, by the enrichment (where both asked)
\* and by the carrier (send by send, as far as both sent)
SameInputs(a, b) ==
  /\ a.outcome # "none" /\ b.outcome # "none"
  /\ SameStore(a.kv0, b.kv0)
  /\ a.feed = b.feed
  /\ (a.nEnrich = 0 \/ b.nEnrich = 0 \/ a.enr = b.enr)
  /\ \A i \in 1..Len(a.sent) : i <= Len(b.sent) => a.sent[i].ok = b.sent[i].ok

\* C25 (no state but the store): two ticks that start from the same
\* contents of the store and the registry and get the same answers from the
\* feed, the enrichment and the carrier make the same dispatches in the
\* same order and leave the same store, times of writing aside, whatever
\* ticks ran before them.
C25_Stateless ==
  SameInputs(prev, last)
    => /\ last.sent = prev.sent
       /\ last.nEnrich = prev.nEnrich
       /\ last.outcome = prev.outcome
       /\ SameStore(prev.kv1, last.kv1)

\* a tick alerted an event, the store was put back, and the next tick
\* alerted it again in the same way
C25_Witness ==
  /\ SameInputs(prev, last)
  /\ prev.outcome = "sent"
  /\ last.outcome = "sent"
  /\ last.sent # <<>>
  /\ prev.kv1 # prev.kv0

\* the phones of the selected targets that have one, in order
RECURSIVE PhonesOf(_)
PhonesOf(sel) ==
  IF sel = <<>> THEN <<>>
  ELSE (IF PhoneOf(Head(sel)) # <<>> THEN <<PhoneOf(Head(sel))>> ELSE <<>>)
       \o PhonesOf(Tail(sel))

\* a tick, running or finished, has asked the feed, the enrichment and the
\* registry at most once each, and its sends so far went to the selected
\* targets in order, one send each
OnceEach(t) ==
  /\ t.nFeed <= 1 /\ t.nEnrich <= 1 /\ t.nReg <= 1
  /\ Len(t.sent) <= Len(PhonesOf(t.selected))
  /\ \A i \in 1..Len(t.sent) : t.sent[i].to = PhonesOf(t.selected)[i]

\* C26 (no retry within a tick): a tick fetches the feed at most once, the
\* enrichment at most once, reads the registry at most once and attempts
\* at most one dispatch per selected target; after a feed or enrichment
\* call that failed the tick ends without another call, and after a send
\* that failed it goes on to the next target.
C26_NoRetry ==
  /\ \A p \in Procs : OnceEach(tk[p])
  /\ OnceEach(last)
  /\ last.feed.st \in {"throw", "notok"}
       => (last.outcome = "feedError" /\ last.nFeed = 1 /\ last.nEnrich = 0
             /\ last.sent = <<>>)
  /\ last.enr.st \in {"throw", "notok"}
       => (last.outcome = "enrichError" /\ last.nEnrich = 1 /\ last.nReg = 0
             /\ last.sent = <<>>)

\* a tick whose three sends all failed: three attempts to three phones
C26_Witness ==
  /\ Len(last.sent) = 3
  /\ AllSendsFailed(last)
  /\ Cardinality({last.sent[i].to : i \in 1..3}) = 3
  /\ prev.enr.st = "throw" /\ prev.nEnrich = 1

\* the store did not hold the tick's event as alerted when the tick started
NotYetAlerted(s) == s.kv0["last_alerted_event_id"] # <<s.id>>

\* the magnitude the enrichment answer of the tick reports, the feed's when
\* it reports none
ReportedMag(s) ==
  IF s.enr.payload.evento.magnitud.t = "undef" THEN s.M
  ELSE ToNumber(s.enr.payload.evento.magnitud)

\* C27 (which magnitude is used where): the global gate compares the feed's
\* magnitude only: an event not yet alerted stops at the gate exactly when
\* its feed magnitude is below the threshold, and otherwise the enrichment
\* is fetched and, when it answers, the registry is read and filtered,
\* whatever magnitude the enrichment reports.  The filter and
\* last_alerted_mag use the enrichment's magnitude when it reports one and
\* the feed's otherwise.
C27_GateOnFeedMagnitude ==
  (FeedValid(last) /\ NotYetAlerted(last))
    => /\ last.outcome = "belowThreshold" <=> NumLt(last.M, MinEventMagnitude(env))
       /\ ClearsThreshold(last) => last.nEnrich = 1
       /\ (ClearsThreshold(last) /\ last.enr.st = "ok")
            => /\ last.nReg = 1
               /\ last.mag = ReportedMag(last)
               /\ last.selected =
                    SelectSeq(LoadTargets(last.reg),
                              LAMBDA t : StatedFilter(t, ReportedMag(last), last.enr.payload))
               /\ last.nMark > 0 => last.kv1["last_alerted_mag"] = <<ReportedMag(last)>>

\* the feed's 5.2 cleared the threshold 4.0, the enrichment reported 3, the
\* target with minimum 4 was not selected and 3 was committed
C27_Witness ==
  /\ last.M = Num(52)
  /\ MinEventMagnitude(env) = Num(40)
  /\ last.enr = EnrichOk(PayloadSantiagoWeak)
  /\ last.mag = Num(30)
  /\ last.outcome = "noneSelected"
  /\ last.kv1["last_alerted_mag"] = <<Num(30)>>

\* every selected target with a phone has had its send
SendsComplete(t) == Len(t.sent) = Len(PhonesOf(t.selected))

\* C28 (commit after dispatch): a tick calls markAlerted at most once, and
\* only once every dispatch attempt of the tick has completed; while the
\* tick is in its dispatch loop the alerted keys hold what they held when
\* it started, and once it has begun to write them it sends nothing more.
C28_CommitAfterDispatch ==
  /\ last.nMark <= 1
  /\ \A p \in Procs :
       LET t == tk[p]
       IN t.pc # "idle"
            => /\ t.nMark <= 1
               /\ t.pc = "dispatch"
                    => (t.nMark = 0 /\ \A k \in AlertedKeys : kv[k] = t.kv0[k])
               /\ (\E k \in AlertedKeys : kv[k] # t.kv0[k])
                    => (t.pc = "markAlerted" /\ t.nMark = 1 /\ SendsComplete(t))
               /\ t.pc = "markAlerted" => SendsComplete(t)

\* a tick is writing the alerted keys after three sends, the first of which
\* succeeded
C28_Witness ==
  /\ tk["t1"].pc = "markAlerted"
  /\ tk["t1"].w = 2
  /\ Len(tk["t1"].sent) = 3
  /\ tk["t1"].sent[1].ok /\ ~tk["t1"].sent[3].ok
  /\ kv["last_alerted_event_id"] = <<tk["t1"].latestId>>
  /\ tk["t1"].kv0["last_alerted_event_id"] # <<tk["t1"].latestId>>

\* C29 (alerted implies seen): when ticks do not overlap, a tick that
\* commits the alerted watermark ends with last_seen_event_id equal to
\* last_alerted_event_id, both the id of its event; a tick that is writing
\* the alerted keys has that id recorded as seen already.
C29_AlertedIsSeen ==
  /\ last.outcome \in CommitOutcomes
       => /\ last.kv1["last_alerted_event_id"] = <<last.id>>
          /\ last.kv1["last_seen_event_id"] = last.kv1["last_alerted_event_id"]
  /\ \A p \in Procs :
       tk[p].pc = "markAlerted" => kv["last_seen_event_id"] = <<tk[p].latestId>>

\* a tick found another id recorded as seen, recorded its own and committed
\* it as alerted
C29_Witness ==
  /\ last.outcome = "sent"
  /\ last.kv0["last_seen_event_id"] # <<>>
  /\ last.kv0["last_seen_event_id"] # <<last.id>>
  /\ last.kv1["last_seen_event_id"] = <<last.id>>
  /\ last.kv1["last_alerted_event_id"] = <<last.id>>

\* the tick's event: its id is a non-empty id, that of the first element of
\* the feed's list, and the magnitude of that element is at least the
\* global threshold
FirstAndStrong(t) ==
  /\ t.feed.st = "ok"
  /\ EventsOf(t.feed.data).t = "arr" /\ EventsOf(t.feed.data).items # <<>>
  /\ t.latestId # <<>>
  /\ t.latestId = ToStr(EventsOf(t.feed.data).items[1].id)
  /\ NumGe(FeedMagnitude(EventsOf(t.feed.data).items[1]), MinEventMagnitude(env))

\* a finished tick committed the alerted watermark for the id
CommittedBefore(id) ==
  \E i \in 1..Len(hist) : hist[i].id = id /\ hist[i].outcome \in CommitOutcomes

\* a running tick has written the id as alerted
BeingCommitted(id) ==
  \E p \in Procs : tk[p].pc = "markAlerted" /\ tk[p].w > 1 /\ tk[p].latestId = id

\* C30 (what last_alerted_event_id can hold): in every state the key is
\* absent or holds a non-empty id that a tick wrote; every tick that writes
\* it writes the id of the first element of its feed, whose feed magnitude
\* was at least the global threshold; once written the key is never absent
\* again.
C30_AlertedKeyContents ==
  /\ kv["last_alerted_event_id"] # <<>>
       => /\ kv["last_alerted_event_id"][1] # <<>>
          /\ \/ CommittedBefore(kv["last_alerted_event_id"][1])
             \/ BeingCommitted(kv["last_alerted_event_id"][1])
  /\ last.outcome \in CommitOutcomes
       => (FirstAndStrong([latestId |-> last.id, feed |-> last.feed])
             /\ last.kv1["last_alerted_event_id"] = <<last.id>>)
  /\ \A p \in Procs :
       tk[p].pc = "markAlerted"
         => FirstAndStrong([latestId |-> tk[p].latestId, feed |-> tk[p].feed])
  /\ (\E i \in 1..Len(hist) : hist[i].outcome \in CommitOutcomes)
       => kv["last_alerted_event_id"] # <<>>

\* the key holds A, committed by the first tick, while the second tick got
\* a feed whose first element has no id
C30_Witness ==
  /\ kv["last_alerted_event_id"] = <<<<"A">>>>
  /\ prev.outcome = "sent"
  /\ prev.feed = FeedEvents(<<EvA, EvB>>)
  /\ last.outcome = "noId"

\* no invocation of checkForNewEvent is running
NoTickRunning == \A p \in Procs : tk[p].pc = "idle"

\* C31 as claimed: in every state in which no tick is in progress, the keys
\* last_alerted_payload_id and last_alerted_mag hold what the commit that
\* wrote the current last_alerted_event_id put there, and last_seen_mag
\* what the observation that wrote last_seen_event_id put there, also when
\* a put of the store fails.
C31_KeysConsistent ==
  NoTickRunning
    => /\ last.kv1["last_alerted_event_id"] # last.kv0["last_alerted_event_id"]
            => /\ kv["last_alerted_event_id"] = <<last.id>>
               /\ kv["last_alerted_payload_id"] =
                    <<IF last.payloadId # <<>> THEN last.payloadId ELSE last.id>>
               /\ kv["last_alerted_mag"] = <<last.mag>>
       /\ last.kv1["last_seen_event_id"] # last.kv0["last_seen_event_id"]
            => /\ kv["last_seen_event_id"] = <<last.id>>
               /\ kv["last_seen_mag"] = <<last.M>>

\* one dispatch of the tick succeeded and another one failed
PartialDelivery(s) == SomeSendOk(s) /\ \E i \in 1..Len(s.sent) : ~s.sent[i].ok

\* the phones whose dispatch failed in the tick
FailedTo(s) == {s.sent[i].to : i \in {n \in 1..Len(s.sent) : ~s.sent[n].ok}}

\* C32 (partial delivery is final): a tick in which one dispatch succeeded
\* and the dispatch to another selected target failed marks the event as
\* alerted; while that event id stays the feed's latest, no later tick
\* attempts a dispatch, so none reaches the targets that failed.
C32_PartialIsFinal ==
  /\ PartialDelivery(last) => last.kv1["last_alerted_event_id"] = <<last.id>>
  /\ (PartialDelivery(prev) /\ last.id = prev.id)
       => /\ last.outcome = "alreadyAlerted"
          /\ \A i \in 1..Len(last.sent) : last.sent[i].to \notin FailedTo(prev)
          /\ last.sent = <<>>
  /\ (last.id # <<>> /\ last.kv0["last_alerted_event_id"] = <<last.id>>)
       => last.sent = <<>>
  /\ \A i, j \in 1..Len(hist) :
       ( /\ i < j
         /\ hist[i].outcome = "sent"
         /\ \A k \in i..j : hist[k].id \in {hist[i].id, <<>>}
         /\ hist[j].id = hist[i].id )
         => hist[j].outcome = "alreadyAlerted"

\* one target got the alert and another did not, and the next tick found the
\* same event, fetched no enrichment and sent nothing
C32_Witness ==
  /\ PartialDelivery(prev)
  /\ FailedTo(prev) # {}
  /\ last.id = prev.id
  /\ last.outcome = "alreadyAlerted"
  /\ last.nEnrich = 0
  /\ last.sent = <<>>

\* the watermark keys of the store
Watermarks == SeenKeys \cup AlertedKeys

\* the recipients a manual alert is to reach: the trimmed `to` when there
\* is one, the phones of the registry's enabled targets otherwise
ManualQueue(to) ==
  IF Trim(to) # <<>> THEN <<Trim(to)>>
  ELSE EnabledPhones(LoadTargets(kv["alert_targets_v1"]))

\* every accepted request started its manual alert, whose recipients depend
\* on `to` and the registry alone and which stops only at the end of its
\* list or at a send that failed
ManualAlertsRun ==
  \A r \in 1..Len(web) :
    LET j == web[r].job
        to == IF web[r].to # <<>> THEN web[r].to ELSE env.TEST_ALERT_TO
    IN /\ web[r].status = TestAlertStatus(env, web[r].pin)
       /\ web[r].status = 200 => j.pc # "none"
       /\ j.pc \in {"send", "done", "rejected"}
            => /\ j.queue = ManualQueue(to)
               /\ \A i \in 1..Len(j.sent) : j.sent[i].to = j.queue[i]
       /\ j.pc = "done" => Len(j.sent) = Len(ManualQueue(to))

\* a tick stops as already alerted exactly on the watermark it read
TicksFollowWatermark ==
  /\ last.outcome = "alreadyAlerted" => last.kv0["last_alerted_event_id"] = <<last.id>>
  /\ last.outcome \in PassOutcomes => last.kv0["last_alerted_event_id"] # <<last.id>>

\* C33 (the manual trigger is independent of the dedup state): a step of a
\* /test-alert request or of its manual alert leaves every seen and alerted
\* key, and every tick, as it was; an accepted request sends to its
\* recipients whatever last_alerted_event_id holds, and the ticks go on
\* deciding on the watermark they read.
C33_ManualIndependent ==
  [][ /\ web' # web => /\ \A k \in Watermarks : kv'[k] = kv[k]
                       /\ kv' = kv /\ tk' = tk /\ last' = last /\ hist' = hist
      /\ ManualAlertsRun'
      /\ TicksFollowWatermark' ]_vars

\* no tick has run, event A is marked as alerted, and a manual alert was
\* sent to the enabled targets of the registry
C33_Witness ==
  /\ hist = <<>>
  /\ kv["last_alerted_event_id"] = <<<<"A">>>>
  /\ \E r \in 1..Len(web) :
       /\ web[r].to = <<>>
       /\ web[r].job.pc = "done"
       /\ web[r].job.sent # <<>>
       /\ \A i \in 1..Len(web[r].job.sent) : web[r].job.sent[i].ok

\* the manual alert has ended, by returning or by rejecting
ManualEnded(job) == job.pc \in {"done", "rejected"}

\* C34 as claimed: a manual alert with a non-empty recipient sends exactly
\* one SMS, to that recipient, and none to the targets of the registry; with
\* an empty recipient it attempts one SMS for every enabled target of the
\* registry, a failed send not preventing the attempts for the later ones.
C34_ManualSends ==
  \A r \in 1..Len(web) :
    LET j == web[r].job
        to == IF web[r].to # <<>> THEN web[r].to ELSE env.TEST_ALERT_TO
    IN ManualEnded(j)
         => [i \in 1..Len(j.sent) |-> j.sent[i].to] = ManualQueue(to)

\* the request was answered with the store bound and the self-healing left
\* at its default
DefaultHit(hit) ==
  hit.pc = "responded" /\ env.YATI_KV /\ env.PUBLIC_REFRESH_FORCE_ON_EMPTY = <<>>

\* the number of refreshes the request handed to ctx.waitUntil
Scheduled(hit) == IF hit.job.pc = "none" THEN 0 ELSE 1

\* a positive refresh interval is configured and the timestamp the request
\* read is missing, unparsable or older than the interval
RefreshDue(hit) ==
  /\ ~RefreshMinutes(env).nan
  /\ RefreshMinutes(env).v > 0
  /\ \/ hit.lastAt = <<>>
     \/ DateParse(hit.lastAt[1]).nan
     \/ hit.now - DateParse(hit.lastAt[1]).v > RefreshMinutes(env).v

\* C35 (GET /public, default configuration): when the stored snapshot is
\* missing or shorter than 200 characters the response is 200 with a
\* placeholder page, never the snapshot, and exactly one background refresh
\* is scheduled for the request; otherwise the response is the stored
\* snapshot, unchanged, and a refresh is scheduled only if a positive
\* refresh interval is configured and the last-refresh timestamp is missing,
\* unparsable or older than the interval.
C35_PublicServes ==
  \A h \in 1..Len(pub.hits) :
    LET hit == pub.hits[h]
    IN DefaultHit(hit)
         => IF hit.html = <<>> \/ hit.html[1].len < 200
            THEN /\ hit.resp.status = 200
                 /\ hit.resp.body = "generating"
                 /\ hit.resp.html = <<>>
                 /\ Scheduled(hit) = 1
                 /\ hit.job.reason = "self-heal-empty"
            ELSE /\ hit.resp.status = 200
                 /\ hit.resp.body = "snapshot"
                 /\ hit.resp.html = hit.html
                 /\ Scheduled(hit) <= 1
                 /\ Scheduled(hit) = 1 => RefreshDue(hit)

\* a request found a snapshot of 150 characters and got the placeholder; a
\* later request got the snapshot and scheduled the periodic refresh
C35_Witness ==
  /\ Len(pub.hits) = 2
  /\ DefaultHit(pub.hits[1]) /\ DefaultHit(pub.hits[2])
  /\ pub.hits[1].html = <<Page(150, 1)>>
  /\ pub.hits[1].resp.body = "generating"
  /\ pub.hits[2].resp.body = "snapshot"
  /\ pub.hits[2].resp.html[1].len >= 200
  /\ pub.hits[2].job.reason = "periodic-refresh"

\* refreshes that ended without reaching the puts
EndedEarly == {"skipped", "buildFailed", "badHtml", "rejected"}

\* the refresh of request h made a put in this step
RefreshPuts(h) ==
  /\ h \in 1..Len(pub.hits)
  /\ pub'.hits[h].job.puts = pub.hits[h].job.puts + 1

\* C36 (refreshPublicHtml never degrades the cache): public_html_v1 is
\* written, and public_html_last_at after it, only by a refresh that has
\* the binding, the base URL and the token, whose build call and HTML fetch
\* both succeeded and whose fetched HTML has at least 200 characters; a
\* refresh that ends on a missing binding, URL or token, on a non-success
\* build response or on a failed or short HTML fetch has written neither
\* key; so every snapshot a refresh stores has at least 200 characters.
C36_RefreshKeepsCache ==
  [][ /\ (\E k \in PublicKeys : kv'[k] # kv[k]) => \E h \in 1..Len(pub.hits) : RefreshPuts(h)
      /\ \A h \in 1..Len(pub.hits) :
           RefreshPuts(h)
             => LET j == pub.hits[h].job
                IN /\ env.YATI_KV /\ env.RAILWAY_BASE_URL
                   /\ env.RAILWAY_BUILD_PUBLIC_TOKEN # <<>>
                   /\ j.build = "ok" /\ j.fetched = "ok"
                   /\ j.html.len >= 200
                   /\ IF j.puts = 0
                      THEN /\ kv'["public_html_v1"] = <<j.html>>
                           /\ kv'["public_html_last_at"] = kv["public_html_last_at"]
                      ELSE /\ j.puts = 1
                           /\ kv'["public_html_v1"] = kv["public_html_v1"]
                           /\ kv'["public_html_last_at"] # <<>>
                           /\ ~DateParse(kv'["public_html_last_at"][1]).nan
      /\ \A h \in 1..Len(pub'.hits) :
           /\ pub'.hits[h].job.pc \in EndedEarly => pub'.hits[h].job.puts = 0
           /\ pub'.hits[h].job.pc = "done" => pub'.hits[h].job.puts = 2
      /\ kv'["public_html_v1"] # kv["public_html_v1"]
           => kv'["public_html_v1"][1].len >= 200 ]_vars

\* one refresh replaced a snapshot of 150 characters and stamped it; another
\* one got a short page from the origin and left both keys alone
C36_Witness ==
  /\ Len(pub.hits) = 2
  /\ pub.hits[1].html = <<Page(150, 1)>>
  /\ pub.hits[1].job.pc = "done"
  /\ pub.hits[2].job.pc = "badHtml"
  /\ pub.hits[2].job.fetched = "ok"
  /\ kv["public_html_v1"] = <<pub.hits[1].job.html>>
  /\ pub.hits[1].job.html.len >= 200
  /\ kv["public_html_last_at"] # <<>>

====
